---- MODULE Spec2Model ----
(***************************************************************************)
(* SLAM / LiDAR simulator: the occupancy-grid mapper (Mapper.js), the grid *)
(* path planner (AStar.js) and the frontier detector (FrontierExplorer.js).*)
(*                                                                         *)
(* World coordinates are integers (or exact rationals num/den where the    *)
(* code divides); the code's float arithmetic is modelled by exact         *)
(* arithmetic, so a cell boundary is crossed exactly where the real-valued *)
(* ray crosses it.                                                         *)
(*                                                                         *)
(* The robot (Robot.js) is modelled in fixed point: positions and speeds   *)
(* in 1/100 world unit, angles in 1/10000 rad, sines and cosines times     *)
(* 10000, every product truncated toward zero.  The collision test itself  *)
(* is exact on those integers.  The lidar (Lidar) works in whole world     *)
(* units with exact fractions for the ray parameter.                       *)
(***************************************************************************)
EXTENDS Integers, Sequences, FiniteSets, TLC

\* ---------------------------------------------------------------- bounds
Cols == 4
Rows == 4
MaxRays == 2
MaxCalls == 2
MaxTicks == 4
MaxCommands == 3
MaxEdits == 4
MaxClicks == 1
BlockSize == 3
ColumnSize == 10

\* ------------------------------------------------------ program constants
CellSize == 10
Radius == 20
MaxRange == 600

UNKNOWN == 0
FREE == 1
OCCUPIED == -1

NumNodes == Cols * Rows
Indices == 0 .. (NumNodes - 1)

VARIABLES grid, op, calls, refused, hadKnown, robot, goal, path, pops, target,
          bot, walls, hitWall, keys, pathWasSet, lidar, scan, sweepSoundCounter,
          interactionMode, autoExploreActive, frontierTarget, frontierCooldown,
          build, customWalls, lastSearch, cancelled,
          frontierCells, clusters

vars == <<grid, op, calls, refused, hadKnown, robot, goal, path, pops, target,
          bot, walls, hitWall, keys, pathWasSet, lidar, scan, sweepSoundCounter,
          interactionMode, autoExploreActive, frontierTarget, frontierCooldown,
          build, customWalls, lastSearch, cancelled,
          frontierCells, clusters>>
mapperVars == <<grid, refused, hadKnown>>
plannerVars == <<robot, goal, path, pops, target>>
robotVars == <<bot, walls, hitWall, keys, pathWasSet>>
lidarVars == <<lidar, scan, sweepSoundCounter>>
appVars == <<interactionMode, autoExploreActive, frontierTarget, frontierCooldown,
             build, customWalls, lastSearch, cancelled>>
explorerVars == <<frontierCells, clusters>>

Abs(x) == IF x < 0 THEN -x ELSE x
Max(a, b) == IF a > b THEN a ELSE b
Min(a, b) == IF a < b THEN a ELSE b

\* ================================================================ Mapper
\* new Array(cols * rows).fill(0)
EmptyGrid == [i \in Indices |-> UNKNOWN]

\* A clear that resets the free cells and keeps the walls.
ClearFreeOnly(g) == [i \in DOMAIN g |-> IF g[i] = FREE THEN UNKNOWN ELSE g[i]]

\* Mapper.clear
Clear(g) == [i \in DOMAIN g |-> UNKNOWN]

\* A markCell that lets a free-space vote overwrite a wall.
MarkCellOverwrite(g, xn, yn, den, state) ==
    LET col == xn \div (den * CellSize)
        row == yn \div (den * CellSize)
    IN  IF col >= 0 /\ col < Cols /\ row >= 0 /\ row < Rows
        THEN [g EXCEPT ![col + row * Cols] = state]
        ELSE g

\* A markCell whose bounds check looks at the flat index only.
MarkCellFlatIndex(g, xn, yn, den, state) ==
    LET col == xn \div (den * CellSize)
        row == yn \div (den * CellSize)
        index == col + row * Cols
    IN  IF index \in DOMAIN g /\ (g[index] # -1 \/ state = -1)
        THEN [g EXCEPT ![index] = state]
        ELSE g

\* Mapper.markCell(x, y, state) at the world point (xn/den, yn/den).
MarkCell(g, xn, yn, den, state) ==
    LET col == xn \div (den * CellSize)
        row == yn \div (den * CellSize)
    IN  IF col >= 0 /\ col < Cols /\ row >= 0 /\ row < Rows
        THEN LET index == col + row * Cols
             IN  IF g[index] # -1 \/ state = -1
                 THEN [g EXCEPT ![index] = state]
                 ELSE g
        ELSE g

\* Whether markCell(x, y, 1) finds the cell already OCCUPIED (the vote is dropped).
Refuses(g, xn, yn, den) ==
    LET col == xn \div (den * CellSize)
        row == yn \div (den * CellSize)
    IN  /\ col >= 0 /\ col < Cols /\ row >= 0 /\ row < Rows
        /\ g[col + row * Cols] = OCCUPIED

\* A free-space loop that traces all the way to the end point of a hit.
LoopRunsToEnd(hit, m2, i) == i * CellSize < m2

\* Whether updateMap's free-space loop runs iteration i: i < steps, and no break
\* (hit.hit && i > steps - 2), with steps = m2 / CellSize.
LoopRuns(hit, m2, i) ==
    /\ i * CellSize < m2
    /\ ~(hit.hit /\ i * CellSize > m2 - 2 * CellSize)

\* Iteration i of the loop: markCell(currX, currY, 1) with
\* currX = robot.x + i * dx / steps = (m2 * robot.x + i * dx * CellSize) / m2.
\* acc = [grid, refused].
FreeStep(acc, rob, hit, m2, i) ==
    LET xn == m2 * rob.x + i * (hit.x - rob.x) * CellSize
        yn == m2 * rob.y + i * (hit.y - rob.y) * CellSize
    IN  [grid |-> MarkCell(acc.grid, xn, yn, m2, FREE),
         refused |-> acc.refused \/ Refuses(acc.grid, xn, yn, m2)]

\* Iterations lo..hi of the loop in increasing order. The range is split in
\* halves and the left half is evaluated (its flag read) before the right
\* half starts, which keeps the evaluation shallow for max-range rays.
RECURSIVE FreeSpace(_, _, _, _, _, _)
RECURSIVE FreeRest(_, _, _, _, _, _)
FreeSpace(acc, rob, hit, m2, lo, hi) ==
    IF lo > hi THEN acc
    ELSE IF lo = hi THEN FreeStep(acc, rob, hit, m2, lo)
    ELSE FreeRest(FreeSpace(acc, rob, hit, m2, lo, (lo + hi) \div 2),
                  rob, hit, m2, (lo + hi) \div 2 + 1, hi)

FreeRest(left, rob, hit, m2, lo, hi) ==
    IF left.refused
    THEN FreeSpace(left, rob, hit, m2, lo, hi)
    ELSE FreeSpace(left, rob, hit, m2, lo, hi)

\* An obstacle vote without the guard on the robot's own body.
ObstacleHitAnyDistance(traced, rob, hit) ==
    IF hit.hit
    THEN [traced EXCEPT !.grid = MarkCell(traced.grid, hit.x, hit.y, 1, OCCUPIED)]
    ELSE traced

\* The obstacle part of updateMap's forEach body (after the free-space loop).
ObstacleHit(traced, rob, hit) ==
    IF hit.hit /\ hit.distance > rob.radius
    THEN [traced EXCEPT !.grid = MarkCell(traced.grid, hit.x, hit.y, 1, OCCUPIED)]
    ELSE traced

\* The number of iterations the free-space loop runs.
LoopCount(hit, m2) == Cardinality({ i \in 0 .. (m2 \div CellSize) : LoopRuns(hit, m2, i) })

\* The body of updateMap's forEach for one hit.
UpdateHit(acc, rob, hit) ==
    LET dx == hit.x - rob.x
        dy == hit.y - rob.y
        m2 == 2 * Max(Abs(dx), Abs(dy))
    IN  IF m2 = 0 THEN acc
        ELSE ObstacleHit(FreeSpace(acc, rob, hit, m2, 0, LoopCount(hit, m2) - 1), rob, hit)

\* The forEach of updateMap from hit k on.  The flag of acc is read before the
\* next hit is traced, so that the hits are evaluated one after the other.
RECURSIVE UpdateFrom(_, _, _, _)
UpdateFrom(acc, rob, hits, k) ==
    IF k > Len(hits) THEN acc
    ELSE IF acc.refused
    THEN UpdateFrom(UpdateHit(acc, rob, hits[k]), rob, hits, k + 1)
    ELSE UpdateFrom(UpdateHit(acc, rob, hits[k]), rob, hits, k + 1)

\* Mapper.updateMap(robot, scanHits): the grid after the scan, and whether a
\* free-space vote was dropped on an OCCUPIED cell.
UpdateMap(g, rob, hits) == UpdateFrom([grid |-> g, refused |-> FALSE], rob, hits, 1)


\* ================================================================= AStar
\* Scores. A gScore is a + b*sqrt(2): a counts the unit steps and the wall
\* penalties, b the diagonal steps (Math.SQRT2 each); it is kept as [a, b].
\* An fScore adds the heuristic sqrt(n), n = dx*dx + dy*dy: [a, b, n].
\* Scores are compared exactly, as real numbers (the code's Float32Array and
\* double rounding is not modelled).
Sign(x) == IF x > 0 THEN 1 ELSE IF x < 0 THEN -1 ELSE 0

\* a/b < c/d for naturals a, c and positive b, d, by Euclid's algorithm.
RECURSIVE FracLess(_, _, _, _)
FracLess(a, b, c, d) ==
    IF a \div b # c \div d THEN a \div b < c \div d
    ELSE IF c % d = 0 THEN FALSE
    ELSE IF a % b = 0 THEN TRUE
    ELSE FracLess(d, c % d, b, a % b)

\* a*b < c*d for naturals, without forming the products.
MulLess(a, b, c, d) ==
    IF c = 0 \/ d = 0 THEN FALSE
    ELSE IF a = 0 \/ b = 0 THEN TRUE
    ELSE FracLess(a, d, c, b)

\* The sign of A + B*sqrt(2).
Sgn2(A, B) ==
    IF A = 0 /\ B = 0 THEN 0
    ELSE IF A >= 0 /\ B >= 0 THEN 1
    ELSE IF A <= 0 /\ B <= 0 THEN -1
    ELSE IF A > 0 THEN (IF MulLess(2 * Abs(B), Abs(B), A, A) THEN 1 ELSE -1)
    ELSE (IF MulLess(Abs(A), Abs(A), 2 * B, B) THEN 1 ELSE -1)

\* The sign of P + Q*sqrt(2) + 2*sqrt(R), R >= 0.
Sgn3(P, Q, R) ==
    IF Sgn2(P, Q) >= 0
    THEN (IF Sgn2(P, Q) = 0 /\ R = 0 THEN 0 ELSE 1)
    ELSE -Sgn2(P * P + 2 * Q * Q - 4 * R, 2 * P * Q)

\* U < V for U = A + B*sqrt(2) and V = sqrt(n2) - sqrt(n1).
RadLess(A, B, n1, n2) ==
    IF Sgn2(A, B) < Sign(n2 - n1) THEN TRUE
    ELSE IF Sgn2(A, B) > Sign(n2 - n1) THEN FALSE
    ELSE IF Sgn2(A, B) = 0 THEN FALSE
    ELSE IF Sgn2(A, B) = 1
         THEN Sgn3(A * A + 2 * B * B - n1 - n2, 2 * A * B, n1 * n2) < 0
         ELSE Sgn3(A * A + 2 * B * B - n1 - n2, 2 * A * B, n1 * n2) > 0

\* f1 < f2 on fScores.
FLess(f1, f2) == RadLess(f1.a - f2.a, f1.b - f2.b, f1.n, f2.n)

\* new Float32Array(numNodes).fill(Infinity)
Infinity == [a |-> -1, b |-> 0]

\* t < g on gScores, g possibly Infinity.
GLess(t, g) == g = Infinity \/ Sgn2(t.a - g.a, t.b - g.b) < 0

\* cameFrom[i] of a cell nothing was stored for (undefined).
NoNode == [col |-> -100, row |-> -100]

\* grid[i] === -1 for any integer i (an index outside the array reads undefined).
IsWall(g, i) == i \in DOMAIN g /\ g[i] = OCCUPIED

\* The four orthogonal directions only.
DirectionsOrthogonal ==
    << [c |-> 0, r |-> -1], [c |-> 0, r |-> 1], [c |-> -1, r |-> 0], [c |-> 1, r |-> 0] >>

\* this.directions, in the order getNeighbors walks them.
Directions ==
    << [c |-> 0, r |-> -1], [c |-> 0, r |-> 1], [c |-> -1, r |-> 0], [c |-> 1, r |-> 0],
       [c |-> -1, r |-> -1], [c |-> 1, r |-> -1], [c |-> -1, r |-> 1], [c |-> 1, r |-> 1] >>

CheckRange == 2
WallPenalty == 5

\* AStar.heuristic, squared: dx*dx + dy*dy.
Heuristic(col, row, goalNode) ==
    (Abs(col - goalNode.col) * Abs(col - goalNode.col)) + (Abs(row - goalNode.row) * Abs(row - goalNode.row))

\* AStar.getWallProximityPenalty
GetWallProximityPenalty(g, col, row) ==
    WallPenalty *
    Cardinality({ d \in (-CheckRange .. CheckRange) \X (-CheckRange .. CheckRange) :
                    /\ col + d[1] >= 0 /\ col + d[1] < Cols
                    /\ row + d[2] >= 0 /\ row + d[2] < Rows
                    /\ g[(col + d[1]) + (row + d[2]) * Cols] = OCCUPIED })

\* A getNeighbors that leaves out the corner test of diagonal moves.
PassableCornerCut(g, node, dir) ==
    /\ node.col + dir.c >= 0 /\ node.col + dir.c < Cols
    /\ node.row + dir.r >= 0 /\ node.row + dir.r < Rows
    /\ g[(node.col + dir.c) + (node.row + dir.r) * Cols] # OCCUPIED

\* A getNeighbors that walks FREE cells only.
PassableFreeOnly(g, node, dir) ==
    /\ node.col + dir.c >= 0 /\ node.col + dir.c < Cols
    /\ node.row + dir.r >= 0 /\ node.row + dir.r < Rows
    /\ g[(node.col + dir.c) + (node.row + dir.r) * Cols] = FREE
    /\ ~( /\ Abs(dir.c) = 1 /\ Abs(dir.r) = 1
          /\ \/ IsWall(g, (node.col + dir.c) + node.row * Cols)
             \/ IsWall(g, node.col + (node.row + dir.r) * Cols) )

\* Whether getNeighbors pushes the cell in direction dir of node.
Passable(g, node, dir) ==
    /\ node.col + dir.c >= 0 /\ node.col + dir.c < Cols
    /\ node.row + dir.r >= 0 /\ node.row + dir.r < Rows
    /\ g[(node.col + dir.c) + (node.row + dir.r) * Cols] # OCCUPIED
    /\ ~( /\ Abs(dir.c) = 1 /\ Abs(dir.r) = 1
          /\ \/ IsWall(g, (node.col + dir.c) + node.row * Cols)
             \/ IsWall(g, node.col + (node.row + dir.r) * Cols) )

\* AStar.getNeighbors: the neighbours from direction k on, in direction order.
RECURSIVE NeighborsFrom(_, _, _)
NeighborsFrom(g, node, k) ==
    IF k > Len(Directions) THEN << >>
    ELSE IF Passable(g, node, Directions[k])
         THEN << [col |-> node.col + Directions[k].c, row |-> node.row + Directions[k].r,
                  penalty |-> GetWallProximityPenalty(g, node.col + Directions[k].c,
                                                      node.row + Directions[k].r)] >>
              \o NeighborsFrom(g, node, k + 1)
         ELSE NeighborsFrom(g, node, k + 1)

GetNeighbors(g, node) == NeighborsFrom(g, node, 1)

\* The linear scan for the lowest fScore: the first minimum wins.
RECURSIVE LowestFrom(_, _, _)
LowestFrom(openSet, best, i) ==
    IF i > Len(openSet) THEN best
    ELSE IF FLess(openSet[i].fScore, openSet[best].fScore)
         THEN LowestFrom(openSet, i, i + 1)
         ELSE LowestFrom(openSet, best, i + 1)

\* openSet.splice(i, 1)
Splice(seq, i) == [k \in 1 .. (Len(seq) - 1) |-> IF k < i THEN seq[k] ELSE seq[k + 1]]

\* The node pushed (or refreshed) for a neighbour reached at gScore t.
Scored(neighbor, t, goalNode) ==
    [col |-> neighbor.col, row |-> neighbor.row, gScore |-> t,
     fScore |-> [a |-> t.a, b |-> t.b, n |-> Heuristic(neighbor.col, neighbor.row, goalNode)]]

\* The update of the openSet entry of a cell that is already in it.
Refresh(openSet, n) ==
    LET hits == { i \in DOMAIN openSet : openSet[i].col = n.col /\ openSet[i].row = n.row }
    IN  [i \in DOMAIN openSet |->
           IF i \in hits /\ \A j \in hits : i <= j
           THEN [openSet[i] EXCEPT !.gScore = n.gScore, !.fScore = n.fScore]
           ELSE openSet[i]]

\* The improvement branch of the neighbour loop (tentativeGScore t is lower).
Improve(st, current, neighbor, ni, t, goalNode) ==
    [st EXCEPT
       !.cameFrom[ni] = [col |-> current.col, row |-> current.row],
       !.gScores[ni] = t,
       !.openSet = IF ni \notin st.inOpenSet
                   THEN Append(st.openSet, Scored(neighbor, t, goalNode))
                   ELSE Refresh(st.openSet, Scored(neighbor, t, goalNode)),
       !.inOpenSet = st.inOpenSet \cup {ni}]

\* tentativeGScore = gScores[currIndex] + distanceCost + neighbor.penalty
Tentative(g0, current, neighbor) ==
    IF Abs(neighbor.col - current.col) + Abs(neighbor.row - current.row) = 2
    THEN [a |-> g0.a + neighbor.penalty, b |-> g0.b + 1]
    ELSE [a |-> g0.a + 1 + neighbor.penalty, b |-> g0.b]

\* One pass of the neighbour loop. A current cell whose flat index is outside
\* the typed arrays reads gScores[currIndex] as undefined: the tentative score
\* is NaN and never lower.
Relax(st, current, currIndex, neighbor, goalNode) ==
    IF (neighbor.col + neighbor.row * Cols) \in st.closedSet THEN st
    ELSE IF currIndex \notin Indices THEN st
    ELSE IF GLess(Tentative(st.gScores[currIndex], current, neighbor),
                  st.gScores[neighbor.col + neighbor.row * Cols])
         THEN Improve(st, current, neighbor, neighbor.col + neighbor.row * Cols,
                      Tentative(st.gScores[currIndex], current, neighbor), goalNode)
         ELSE st

RECURSIVE RelaxFrom(_, _, _, _, _, _)
RelaxFrom(st, current, currIndex, neighbors, goalNode, k) ==
    IF k > Len(neighbors) THEN st
    ELSE RelaxFrom(Relax(st, current, currIndex, neighbors[k], goalNode),
                   current, currIndex, neighbors, goalNode, k + 1)

\* The loop body after the goalNode test: take current out of the open set, close
\* it (a write outside a typed array is dropped) and relax its neighbours.
Expand(st, g, goalNode, lowestIndex, current, currIndex) ==
    RelaxFrom([st EXCEPT !.openSet = Splice(st.openSet, lowestIndex),
                         !.inOpenSet = st.inOpenSet \ {currIndex},
                         !.closedSet = st.closedSet \cup ({currIndex} \cap Indices)],
              current, currIndex, GetNeighbors(g, current), goalNode, 1)

\* Cell centre.
Waypoint(node) ==
    [x |-> node.col * CellSize + CellSize \div 2, y |-> node.row * CellSize + CellSize \div 2]

\* The backtrace of reconstructPath: goalNode first.
RECURSIVE BackTrace(_, _)
BackTrace(cameFrom, current) ==
    IF current = NoNode THEN << >>
    ELSE << Waypoint(current) >>
         \o BackTrace(cameFrom,
                      IF (current.col + current.row * Cols) \in DOMAIN cameFrom
                      THEN cameFrom[current.col + current.row * Cols]
                      ELSE NoNode)

Reverse(seq) == [k \in 1 .. Len(seq) |-> seq[Len(seq) + 1 - k]]

\* A reconstructPath that returns the backtrace as it was built.
ReconstructPathUnreversed(cameFrom, current) == BackTrace(cameFrom, current)

\* AStar.reconstructPath
ReconstructPath(cameFrom, current) == Reverse(BackTrace(cameFrom, current))

\* The while loop of findPath; count counts the cells expanded.
RECURSIVE AStarLoop(_, _, _, _)
RECURSIVE AStarStep(_, _, _, _, _)
AStarLoop(st, g, goalNode, count) ==
    IF Len(st.openSet) = 0 THEN [path |-> << >>, pops |-> count]
    ELSE AStarStep(st, g, goalNode, count, LowestFrom(st.openSet, 1, 2))

AStarStep(st, g, goalNode, count, lowestIndex) ==
    IF st.openSet[lowestIndex].col = goalNode.col /\ st.openSet[lowestIndex].row = goalNode.row
    THEN [path |-> ReconstructPath(st.cameFrom, st.openSet[lowestIndex]), pops |-> count]
    ELSE AStarLoop(Expand(st, g, goalNode, lowestIndex, st.openSet[lowestIndex],
                          st.openSet[lowestIndex].col + st.openSet[lowestIndex].row * Cols),
                   g, goalNode, count + 1)

\* The search state findPath starts from.
StartState(startCol, startRow, goalNode) ==
    [openSet |-> << [col |-> startCol, row |-> startRow, gScore |-> [a |-> 0, b |-> 0],
                     fScore |-> [a |-> 0, b |-> 0, n |-> Heuristic(startCol, startRow, goalNode)]] >>,
     closedSet |-> {},
     inOpenSet |-> {startCol + startRow * Cols} \cap Indices,
     gScores |-> [i \in Indices |-> IF i = startCol + startRow * Cols
                                    THEN [a |-> 0, b |-> 0] ELSE Infinity],
     cameFrom |-> [i \in Indices |-> NoNode]]

\* A findPath that does not look at the goal cell's belief state.
FindPathAnyGoal(g, startX, startY, endX, endY) ==
    LET goalNode == [col |-> endX \div CellSize, row |-> endY \div CellSize]
    IN  IF goalNode.col < 0 \/ goalNode.col >= Cols \/ goalNode.row < 0 \/ goalNode.row >= Rows
        THEN [path |-> << >>, pops |-> 0]
        ELSE AStarLoop(StartState(startX \div CellSize, startY \div CellSize, goalNode),
                       g, goalNode, 0)

\* AStar.findPath(startX, startY, endX, endY): [path, pops].
FindPath(g, startX, startY, endX, endY) ==
    LET goalNode == [col |-> endX \div CellSize, row |-> endY \div CellSize]
    IN  IF goalNode.col < 0 \/ goalNode.col >= Cols \/ goalNode.row < 0 \/ goalNode.row >= Rows
        THEN [path |-> << >>, pops |-> 0]
        ELSE IF g[goalNode.col + goalNode.row * Cols] = OCCUPIED
        THEN [path |-> << >>, pops |-> 0]
        ELSE AStarLoop(StartState(startX \div CellSize, startY \div CellSize, goalNode),
                       g, goalNode, 0)

\* ====================================================== FrontierExplorer
\* A frontier test that takes any cell that is not FREE for an unexplored one.
IsFrontierNotFree(g, c, r, cols) ==
    /\ g[c + r * cols] = FREE
    /\ \/ g[(c - 1) + r * cols] # FREE
       \/ g[(c + 1) + r * cols] # FREE
       \/ g[c + (r - 1) * cols] # FREE
       \/ g[c + (r + 1) * cols] # FREE

\* The test of _detectFrontiers on an inner cell of a mapper grid of cols
\* columns: FREE, with an UNKNOWN cell among its 4-connected neighbours.
IsFrontier(g, c, r, cols) ==
    /\ g[c + r * cols] = FREE
    /\ \/ g[(c - 1) + r * cols] = UNKNOWN
       \/ g[(c + 1) + r * cols] = UNKNOWN
       \/ g[c + (r - 1) * cols] = UNKNOWN
       \/ g[c + (r + 1) * cols] = UNKNOWN

\* FrontierExplorer._detectFrontiers on the mapper's grid, cols and rows:
\* rows 1 .. rows-2 and columns 1 .. cols-2, row by row.
RECURSIVE DetectFrom(_, _, _, _)
DetectFrom(g, idx, cols, rows) ==
    IF idx >= cols * rows THEN << >>
    ELSE IF /\ idx \div cols >= 1 /\ idx \div cols < rows - 1
            /\ idx % cols >= 1 /\ idx % cols < cols - 1
            /\ IsFrontier(g, idx % cols, idx \div cols, cols)
         THEN << [col |-> idx % cols, row |-> idx \div cols] >>
                \o DetectFrom(g, idx + 1, cols, rows)
         ELSE DetectFrom(g, idx + 1, cols, rows)

DetectFrontiers(g, cols, rows) == DetectFrom(g, 0, cols, rows)

SeqRange(seq) == { seq[k] : k \in DOMAIN seq }

\* A flood fill that also crosses corners: the eight surrounding cells.
FloodNeighborsDiagonal(cell) ==
    << [col |-> cell.col - 1, row |-> cell.row], [col |-> cell.col + 1, row |-> cell.row],
       [col |-> cell.col, row |-> cell.row - 1], [col |-> cell.col, row |-> cell.row + 1],
       [col |-> cell.col - 1, row |-> cell.row - 1], [col |-> cell.col + 1, row |-> cell.row - 1],
       [col |-> cell.col - 1, row |-> cell.row + 1], [col |-> cell.col + 1, row |-> cell.row + 1] >>

\* The 4-connected neighbours of the flood fill, in its order.
FloodNeighbors(cell) ==
    << [col |-> cell.col - 1, row |-> cell.row], [col |-> cell.col + 1, row |-> cell.row],
       [col |-> cell.col, row |-> cell.row - 1], [col |-> cell.col, row |-> cell.row + 1] >>

\* The neighbours the flood fill queues: frontier cells not visited yet.
Fresh(cell, visited, set) ==
    SelectSeq(FloodNeighbors(cell), LAMBDA n : n \in set /\ n \notin visited)

\* The BFS flood fill of _clusterFrontiers.
RECURSIVE Flood(_, _, _, _)
Flood(queue, visited, cluster, set) ==
    IF Len(queue) = 0 THEN [cluster |-> cluster, visited |-> visited]
    ELSE Flood(Tail(queue) \o Fresh(Head(queue), visited, set),
               visited \cup SeqRange(Fresh(Head(queue), visited, set)),
               Append(cluster, Head(queue)), set)

MinCluster == 3

\* FrontierExplorer._clusterFrontiers, from the k-th frontier cell on.
RECURSIVE ClusterFrom(_, _, _, _)
RECURSIVE KeepCluster(_, _, _, _)
ClusterFrom(cells, k, visited, cls) ==
    IF k > Len(cells) THEN cls
    ELSE IF cells[k] \in visited
         THEN ClusterFrom(cells, k + 1, visited, cls)
         ELSE KeepCluster(cells, k, cls,
                          Flood(<< cells[k] >>, visited \cup {cells[k]},
                                << >>, SeqRange(cells)))

KeepCluster(cells, k, cls, filled) ==
    ClusterFrom(cells, k + 1, filled.visited,
                IF Len(filled.cluster) >= MinCluster
                THEN Append(cls, filled.cluster)
                ELSE cls)

ClusterFrontiers(cells) == ClusterFrom(cells, 1, {}, << >>)

RECURSIVE SumCol(_, _)
SumCol(cluster, k) == IF k > Len(cluster) THEN 0 ELSE cluster[k].col + SumCol(cluster, k + 1)

RECURSIVE SumRow(_, _)
SumRow(cluster, k) == IF k > Len(cluster) THEN 0 ELSE cluster[k].row + SumRow(cluster, k + 1)

\* A cluster's size, coordinate sums and squared distance to the robot's
\* cell, scaled: the centroid is (sx/len, sy/len) and dist = sqrt(n)/len.
Measure(len, sx, sy, robotCol, robotRow) ==
    [len |-> len, sx |-> sx, sy |-> sy,
     n |-> ((sx - len * robotCol) * (sx - len * robotCol))
           + ((sy - len * robotRow) * (sy - len * robotRow))]

\* The sign of a + sqrt(p) - sqrt(q) for p, q >= 0.
RECURSIVE SgnRad(_, _, _)
SgnRad(a, p, q) ==
    IF a = 0 THEN Sign(p - q)
    ELSE IF a < 0 THEN -SgnRad(-a, q, p)
    ELSE IF p >= q THEN 1
    ELSE IF q - p - a * a < 0 THEN 1
    ELSE IF MulLess(q - p - a * a, q - p - a * a, 4 * a * a, p) THEN 1
    ELSE IF MulLess(4 * a * a, p, q - p - a * a, q - p - a * a) THEN -1
    ELSE 0

\* score > bestScore, for score = len / (1 + dist * 0.1) = 10 len^2 / (10 len + sqrt(n));
\* bestScore starts at -Infinity (no best yet: len = 0).
ScoreGreater(m, best) ==
    \/ best.len = 0
    \/ SgnRad(10 * m.len * best.len * (m.len - best.len),
              m.len * m.len * m.len * m.len * best.n,
              best.len * best.len * best.len * best.len * m.n) > 0

\* The loop over the clusters: the first cluster of the highest score wins.
RECURSIVE BestFrom(_, _, _, _, _)
RECURSIVE BestNext(_, _, _, _, _, _)
\* A loop that goes by size alone: the first of the largest clusters wins.
BestNextLargest(cls, k, robotCol, robotRow, best, m) ==
    BestFrom(cls, k + 1, robotCol, robotRow, IF m.len > best.len THEN m ELSE best)

BestFrom(cls, k, robotCol, robotRow, best) ==
    IF k > Len(cls) THEN best
    ELSE BestNext(cls, k, robotCol, robotRow, best,
                  Measure(Len(cls[k]), SumCol(cls[k], 1), SumRow(cls[k], 1),
                          robotCol, robotRow))

BestNext(cls, k, robotCol, robotRow, best, m) ==
    BestFrom(cls, k + 1, robotCol, robotRow, IF ScoreGreater(m, best) THEN m ELSE best)

\* null
NoTarget == [xn |-> 0, yn |-> 0, den |-> 0]

\* The target point (xn/den, yn/den) = centroid * cellSize + cellSize / 2.
TargetOf(best) ==
    IF best.len = 0 THEN NoTarget
    ELSE [xn |-> 2 * best.sx * CellSize + CellSize * best.len,
          yn |-> 2 * best.sy * CellSize + CellSize * best.len,
          den |-> 2 * best.len]

\* The scoring loop of findBestFrontier over the clusters, from the robot's
\* cell: the target of the best cluster, null when there is no cluster.
BestTarget(cls, robotX, robotY) ==
    TargetOf(BestFrom(cls, 1, robotX \div CellSize, robotY \div CellSize,
                      [len |-> 0, sx |-> 0, sy |-> 0, n |-> 0]))

\* FrontierExplorer.findBestFrontier(robotX, robotY)
FindBestFrontierOn(g, cols, rows, robotX, robotY) ==
    BestTarget(ClusterFrontiers(DetectFrontiers(g, cols, rows)), robotX, robotY)

\* The same for the mapper of the planner and the application
FindBestFrontier(g, robotX, robotY) == FindBestFrontierOn(g, Cols, Rows, robotX, robotY)

\* ================================================================= Robot
\* The robot's numbers are floats in the code.  Here they are fixed-point:
\* positions and speeds in 1/100 of a world unit, angles in 1/10000 of a
\* radian, Math.cos and Math.sin to four decimals.  Rounding is towards zero.
PosScale == 100
TrigScale == 10000
\* Math.PI, 2 * Math.PI and Math.PI / 2 in 1/10000 rad
Pi == 31416
TwoPi == 62832
HalfPi == 15708

\* v / d rounded towards zero
Trunc(v, d) == IF v >= 0 THEN v \div d ELSE -((-v) \div d)

\* Taylor polynomials on [0, pi/4]; x is the angle in 1/10000 rad.
Square(x) == (x * x) \div TrigScale
SinTaylor(x) ==
    x - ((x * Square(x)) \div TrigScale) \div 6
      + ((((x * Square(x)) \div TrigScale) * Square(x)) \div TrigScale) \div 120
CosTaylor(x) ==
    TrigScale - Square(x) \div 2
      + ((Square(x) * Square(x)) \div TrigScale) \div 24
      - ((((Square(x) * Square(x)) \div TrigScale) * Square(x)) \div TrigScale) \div 720

\* sine and cosine on the first quadrant [0, pi/2]
SinQuadrant(r) == IF 2 * r <= HalfPi THEN SinTaylor(r) ELSE CosTaylor(HalfPi - r)
CosQuadrant(r) == IF 2 * r <= HalfPi THEN CosTaylor(r) ELSE SinTaylor(HalfPi - r)

\* Math.sin, Math.cos: TrigScale * sin(a / 10000)
Sin(a) ==
    CASE (a % TwoPi) \div HalfPi = 0 -> SinQuadrant((a % TwoPi) % HalfPi)
      [] (a % TwoPi) \div HalfPi = 1 -> CosQuadrant((a % TwoPi) % HalfPi)
      [] (a % TwoPi) \div HalfPi = 2 -> -SinQuadrant((a % TwoPi) % HalfPi)
      [] OTHER -> -CosQuadrant((a % TwoPi) % HalfPi)
Cos(a) ==
    CASE (a % TwoPi) \div HalfPi = 0 -> CosQuadrant((a % TwoPi) % HalfPi)
      [] (a % TwoPi) \div HalfPi = 1 -> -SinQuadrant((a % TwoPi) % HalfPi)
      [] (a % TwoPi) \div HalfPi = 2 -> -CosQuadrant((a % TwoPi) % HalfPi)
      [] OTHER -> SinQuadrant((a % TwoPi) % HalfPi)

\* The angle in [lo, hi] (within [0, pi/4]) whose tangent is p / q, 0 <= p <= q,
\* by bisection.
RECURSIVE AtanBisect(_, _, _, _)
AtanBisect(lo, hi, p, q) ==
    IF lo >= hi THEN lo
    ELSE IF SinTaylor((lo + hi + 1) \div 2) * q <= CosTaylor((lo + hi + 1) \div 2) * p
         THEN AtanBisect((lo + hi + 1) \div 2, hi, p, q)
         ELSE AtanBisect(lo, (lo + hi + 1) \div 2 - 1, p, q)

\* atan2 of non-negative arguments, in [0, pi/2]
AtanQuadrant(dy, dx) ==
    IF dy <= dx THEN AtanBisect(0, HalfPi \div 2, dy, dx)
    ELSE HalfPi - AtanBisect(0, HalfPi \div 2, dx, dy)

\* Math.atan2(dy, dx), in (-pi, pi]
Atan2(dy, dx) ==
    IF dx = 0 /\ dy = 0 THEN 0
    ELSE IF dx >= 0 THEN Sign(dy) * AtanQuadrant(Abs(dy), dx)
    ELSE IF dy >= 0 THEN Pi - AtanQuadrant(dy, -dx)
    ELSE AtanQuadrant(-dy, -dx) - Pi

\* Robot constructor defaults: maxSpeed (world units per tick), maxTurn
\* (1/10000 rad per tick)
MaxSpeed == 5
MaxTurn == 500
\* autonomousDrive: arrival radius (world units), turn-in-place threshold
\* (1/10000 rad)
ArrivalRadius == 15
TurnInPlace == 5000

\* new Robot(x, y); the trails, which only the drawing code reads, are left out.
\* path = null is hasPath = FALSE.
NewRobot(x0, y0) ==
    [x |-> x0 * PosScale, y |-> y0 * PosScale, theta |-> 0,
     believedX |-> x0 * PosScale, believedY |-> y0 * PosScale, believedTheta |-> 0,
     radius |-> Radius * PosScale,
     forwardSpeed |-> 0, turnSpeed |-> 0,
     maxSpeed |-> MaxSpeed * PosScale, maxTurn |-> MaxTurn,
     hasPath |-> FALSE, path |-> << >>, pathIndex |-> 0,
     driftAmount |-> 0]

\* Robot.setDrift
SetDrift(b, amount) == [b EXCEPT !.driftAmount = amount]

\* A setPath that keeps the index of the path before.
SetPathKeepIndex(b, p) == [b EXCEPT !.hasPath = TRUE, !.path = p]

\* Robot.setPath
SetPath(b, p) == [b EXCEPT !.hasPath = TRUE, !.path = p, !.pathIndex = 0]

\* Robot.setSpeedMultiplier
SetSpeedMultiplier(b, mult) == [b EXCEPT !.maxSpeed = mult * PosScale]

\* while (angleDiff > PI) angleDiff -= 2 PI; while (angleDiff < -PI) angleDiff += 2 PI
RECURSIVE WrapAngle(_)
WrapAngle(a) ==
    IF a > Pi THEN WrapAngle(a - TwoPi)
    ELSE IF a < -Pi THEN WrapAngle(a + TwoPi)
    ELSE a

\* distance < 15 to the current waypoint
Arrived(b) ==
    (b.path[b.pathIndex + 1].x - b.x) * (b.path[b.pathIndex + 1].x - b.x)
      + (b.path[b.pathIndex + 1].y - b.y) * (b.path[b.pathIndex + 1].y - b.y)
    < (ArrivalRadius * PosScale) * (ArrivalRadius * PosScale)

\* The steering law: proportional turn, clamped; forward only when roughly
\* facing the target.
Steer(b, angleDiff) ==
    [b EXCEPT !.turnSpeed = Max(-b.maxTurn, Min(b.maxTurn, Trunc(angleDiff, 10))),
              !.forwardSpeed = IF Abs(angleDiff) > TurnInPlace THEN 0
                               ELSE Trunc(b.maxSpeed * 8, 10)]

\* Path following that clears the path at the last waypoint and leaves the
\* speeds as they were.
AutonomousDriveCoasting(b) ==
    IF ~b.hasPath \/ b.pathIndex >= Len(b.path)
    THEN [b EXCEPT !.hasPath = FALSE, !.path = << >>]
    ELSE IF Arrived(b) /\ b.pathIndex + 1 >= Len(b.path)
    THEN [b EXCEPT !.pathIndex = @ + 1, !.hasPath = FALSE, !.path = << >>]
    ELSE Steer([b EXCEPT !.pathIndex = IF Arrived(b) THEN @ + 1 ELSE @],
               WrapAngle(Atan2(b.path[b.pathIndex + 1].y - b.y,
                               b.path[b.pathIndex + 1].x - b.x) - b.theta))

\* Robot.autonomousDrive.  The bearing is taken to the waypoint that was
\* current on entry, also when the index has just advanced.
AutonomousDrive(b) ==
    IF ~b.hasPath \/ b.pathIndex >= Len(b.path)
    THEN [b EXCEPT !.hasPath = FALSE, !.path = << >>]
    ELSE IF Arrived(b) /\ b.pathIndex + 1 >= Len(b.path)
    THEN [b EXCEPT !.pathIndex = @ + 1, !.hasPath = FALSE, !.path = << >>,
                   !.forwardSpeed = 0, !.turnSpeed = 0]
    ELSE Steer([b EXCEPT !.pathIndex = IF Arrived(b) THEN @ + 1 ELSE @],
               WrapAngle(Atan2(b.path[b.pathIndex + 1].y - b.y,
                               b.path[b.pathIndex + 1].x - b.x) - b.theta))

\* Squared distance from (cx, cy) to the closest point of the segment, compared
\* with r * r: dot is (c - p1).(p2 - p1), lenSq is |p2 - p1|^2, a is |c - p1|^2.
\* For 0 < dot < lenSq the squared distance is a - dot^2 / lenSq.
CloserThan(a, dot, lenSq, endSq, rr) ==
    IF lenSq = 0 \/ dot <= 0 THEN a < rr
    ELSE IF dot >= lenSq THEN endSq < rr
    ELSE a < rr \/ MulLess(a - rr, lenSq, dot, dot)

\* Robot.circleLineIntersect
CircleLineIntersect(cx, cy, r, p1, p2) ==
    CloserThan((cx - p1.x) * (cx - p1.x) + (cy - p1.y) * (cy - p1.y),
               (cx - p1.x) * (p2.x - p1.x) + (cy - p1.y) * (p2.y - p1.y),
               (p2.x - p1.x) * (p2.x - p1.x) + (p2.y - p1.y) * (p2.y - p1.y),
               (cx - p2.x) * (cx - p2.x) + (cy - p2.y) * (cy - p2.y),
               r * r)

\* Math.random() in thousandths: the drift noise terms of _updateBelievedPose
\* for a draw rnd, in the units of the quantity they are added to.
TurnNoise(b, rnd) == Trunc((rnd - 500) * b.driftAmount, 25)
SpeedNoise(b, rnd) == Trunc(Trunc((rnd - 500) * b.driftAmount * 6, 1000) * b.forwardSpeed, 1000)
AngleNoise(b, rnd) == Trunc((rnd - 500) * b.driftAmount, 100)

\* believedX/Y += cos/sin(believedTheta + angleNoise) * (forwardSpeed + speedNoise)
Displace(b, speed, heading) ==
    [b EXCEPT !.believedX = @ + Trunc(Cos(heading) * speed, TrigScale),
              !.believedY = @ + Trunc(Sin(heading) * speed, TrigScale)]

\* Dead reckoning without the zero-drift reset: the commands are integrated
\* into the believed pose also when driftAmount is 0.
UpdateBelievedPoseNoReset(b, hit, rnd) ==
    IF hit
    THEN [b EXCEPT !.believedTheta = @ + b.turnSpeed + TurnNoise(b, rnd[1])]
    ELSE Displace([b EXCEPT !.believedTheta = @ + b.turnSpeed + TurnNoise(b, rnd[1])],
                  b.forwardSpeed + SpeedNoise(b, rnd[2]),
                  b.believedTheta + b.turnSpeed + TurnNoise(b, rnd[1]) + AngleNoise(b, rnd[3]))

\* Dead reckoning that ignores the collision flag: the believed position is
\* advanced also in a tick in which a wall froze the true position.
UpdateBelievedPoseThroughWalls(b, hit, rnd) ==
    IF b.driftAmount = 0
    THEN [b EXCEPT !.believedX = b.x, !.believedY = b.y, !.believedTheta = b.theta]
    ELSE Displace([b EXCEPT !.believedTheta = @ + b.turnSpeed + TurnNoise(b, rnd[1])],
                  b.forwardSpeed + SpeedNoise(b, rnd[2]),
                  b.believedTheta + b.turnSpeed + TurnNoise(b, rnd[1]) + AngleNoise(b, rnd[3]))

\* Robot._updateBelievedPose(hitWall); rnd holds the three Math.random() draws.
UpdateBelievedPose(b, hit, rnd) ==
    IF b.driftAmount = 0
    THEN [b EXCEPT !.believedX = b.x, !.believedY = b.y, !.believedTheta = b.theta]
    ELSE IF hit
    THEN [b EXCEPT !.believedTheta = @ + b.turnSpeed + TurnNoise(b, rnd[1])]
    ELSE Displace([b EXCEPT !.believedTheta = @ + b.turnSpeed + TurnNoise(b, rnd[1])],
                  b.forwardSpeed + SpeedNoise(b, rnd[2]),
                  b.believedTheta + b.turnSpeed + TurnNoise(b, rnd[1]) + AngleNoise(b, rnd[3]))

\* Robot.update, in its steps: steer if a path is set, turn, propose the next
\* position, test it against every wall, move unless a wall is hit, update the
\* believed pose.
Drive(b) == IF b.hasPath THEN AutonomousDrive(b) ELSE b
Turned(b) == [b EXCEPT !.theta = @ + b.turnSpeed]
NextX(b) == b.x + Trunc(Cos(b.theta) * b.forwardSpeed, TrigScale)
NextY(b) == b.y + Trunc(Sin(b.theta) * b.forwardSpeed, TrigScale)
HitsWall(b, ws) ==
    \E w \in ws : CircleLineIntersect(NextX(b), NextY(b), b.radius, w.start, w.end)
\* A robot that takes the proposed position whatever the walls.
MovedAnyway(b, hit) == [b EXCEPT !.x = NextX(b), !.y = NextY(b)]
Moved(b, hit) == IF hit THEN b ELSE [b EXCEPT !.x = NextX(b), !.y = NextY(b)]
UpdateWith(b, hit, rnd) ==
    [bot |-> UpdateBelievedPose(Moved(b, hit), hit, rnd), hitWall |-> hit]

\* Robot.update(environment): the robot afterwards and the value returned
Update(b, ws, rnd) == UpdateWith(Turned(Drive(b)), HitsWall(Turned(Drive(b)), ws), rnd)

\* An input handler that leaves an active path in place: the keys count only
\* when no path is set.
ApplyInputKeepPath(b, ks) ==
    IF ~b.hasPath
    THEN [b EXCEPT !.forwardSpeed = IF "s" \in ks THEN -b.maxSpeed
                                    ELSE IF "w" \in ks THEN b.maxSpeed ELSE 0,
                   !.turnSpeed = IF "d" \in ks THEN b.maxTurn
                                 ELSE IF "a" \in ks THEN -b.maxTurn ELSE 0]
    ELSE b

\* Robot.applyInput(keys); ks is the set of keys held
ApplyInput(b, ks) ==
    IF ks \cap {"w", "a", "s", "d"} # {} \/ ~b.hasPath
    THEN [b EXCEPT !.hasPath = IF ks \cap {"w", "a", "s", "d"} # {} THEN FALSE ELSE @,
                   !.path = IF ks \cap {"w", "a", "s", "d"} # {} THEN << >> ELSE @,
                   !.forwardSpeed = IF "s" \in ks THEN -b.maxSpeed
                                    ELSE IF "w" \in ks THEN b.maxSpeed ELSE 0,
                   !.turnSpeed = IF "d" \in ks THEN b.maxTurn
                                 ELSE IF "a" \in ks THEN -b.maxTurn ELSE 0]
    ELSE b

\* ================================================================= Lidar
\* The sensor works in whole world units, with ray end points rounded to them.
\* The position of an intersection along a ray, the reported point and the
\* reported distance are exact fractions [n, d] in lowest terms, d > 0.
NumRays == 90
NoisePercent == 2

\* new Lidar()
NewLidar == [numRays |-> NumRays, maxRange |-> MaxRange, noisePercent |-> NoisePercent]

\* Lidar.setParameters
SetParameters(lid, numRays, noisePercent) ==
    [lid EXCEPT !.numRays = numRays, !.noisePercent = noisePercent]

RECURSIVE Gcd(_, _)
Gcd(a, b) == IF b = 0 THEN a ELSE Gcd(b, a % b)

\* The fraction n / d, d # 0
Frac(n, d) ==
    [n |-> (Sign(d) * n) \div Gcd(Abs(n), Abs(d)), d |-> Abs(d) \div Gcd(Abs(n), Abs(d))]

\* p < q for fractions with p.n, q.n >= 0
FracBelow(p, q) == FracLess(p.n, p.d, q.n, q.d)

\* Lidar.getLineIntersection(p1, p2, p3, p4): whether the segments meet, and
\* then t, the position of the meeting point along p1 -> p2.  denom, tnum and
\* unum are the code's denom and the numerators of its t and u.
Intersection(denom, tnum, unum) ==
    IF denom = 0 THEN [meets |-> FALSE, t |-> Frac(0, 1)]
    ELSE [meets |-> /\ Sign(denom) * tnum >= 0 /\ Abs(tnum) <= Abs(denom)
                    /\ Sign(denom) * unum >= 0 /\ Abs(unum) <= Abs(denom),
          t |-> Frac(tnum, denom)]

GetLineIntersection(p1, p2, p3, p4) ==
    Intersection((p1.x - p2.x) * (p3.y - p4.y) - (p1.y - p2.y) * (p3.x - p4.x),
                 (p1.x - p3.x) * (p3.y - p4.y) - (p1.y - p3.y) * (p3.x - p4.x),
                 -((p1.x - p2.x) * (p1.y - p3.y) - (p1.y - p2.y) * (p1.x - p3.x)))

\* The ray's far end: p2 = p1 + (cos, sin)(rayAngle) * maxRange
RayEnd(rob, rayAngle, range) ==
    [x |-> rob.x + Trunc(Cos(rayAngle) * range, TrigScale),
     y |-> rob.y + Trunc(Sin(rayAngle) * range, TrigScale)]

\* The positions along the ray of the wall intersections that are closer than
\* maxRange (dist < minDistance, minDistance starting at maxRange): the
\* distance of the point at position t is t * maxRange.
HitsAlong(p1, p2, ws) ==
    { GetLineIntersection(p1, p2, w.start, w.end).t :
        w \in { v \in ws : /\ GetLineIntersection(p1, p2, v.start, v.end).meets
                           /\ FracBelow(GetLineIntersection(p1, p2, v.start, v.end).t,
                                        Frac(1, 1)) } }

\* The closest of them
Closest(ts) == CHOOSE t \in ts : \A s \in ts : ~FracBelow(s, t)

\* A max-range miss
MissAt(p2, range, rayAngle) ==
    [x |-> Frac(p2.x, 1), y |-> Frac(p2.y, 1), distance |-> Frac(range, 1),
     angle |-> rayAngle, hit |-> FALSE]

\* (Math.random() * 2 - 1) * (noisePercent / 100) * maxRange, for a draw rnd in
\* hundredths
NoiseError(lid, rnd) == Trunc((2 * rnd - 100) * lid.noisePercent * lid.maxRange, 10000)

\* A hit at position t along the ray, its distance off by err: the point is
\* p1 + (cos, sin)(rayAngle) * distance, with (cos, sin) = (p2 - p1) / maxRange.
HitAt(p1, p2, range, rayAngle, t, err) ==
    [x |-> Frac(p1.x * (range * t.d) + (p2.x - p1.x) * (t.n * range + err * t.d), range * t.d),
     y |-> Frac(p1.y * (range * t.d) + (p2.y - p1.y) * (t.n * range + err * t.d), range * t.d),
     distance |-> Frac(t.n * range + err * t.d, t.d),
     angle |-> rayAngle, hit |-> TRUE]

\* A sensor whose noise also perturbs the distance of a miss.
ReadingNoisyMiss(lid, p1, p2, rayAngle, ts, rnd) ==
    IF ts = {}
    THEN [MissAt(p2, lid.maxRange, rayAngle) EXCEPT
            !.distance = Frac(lid.maxRange
                                + (IF lid.noisePercent > 0 THEN NoiseError(lid, rnd) ELSE 0), 1)]
    ELSE HitAt(p1, p2, lid.maxRange, rayAngle, Closest(ts),
               IF lid.noisePercent > 0 THEN NoiseError(lid, rnd) ELSE 0)

\* The reading of one ray
Reading(lid, p1, p2, rayAngle, ts, rnd) ==
    IF ts = {} THEN MissAt(p2, lid.maxRange, rayAngle)
    ELSE HitAt(p1, p2, lid.maxRange, rayAngle, Closest(ts),
               IF lid.noisePercent > 0 THEN NoiseError(lid, rnd) ELSE 0)

\* Ray i of the scan: rayAngle = robot.theta + i * angleStep
RayAngle(lid, rob, i) == rob.theta + (i * TwoPi) \div lid.numRays

Ray(lid, rob, ws, rayAngle, rnd) ==
    Reading(lid, rob, RayEnd(rob, rayAngle, lid.maxRange), rayAngle,
            HitsAlong(rob, RayEnd(rob, rayAngle, lid.maxRange), ws), rnd)

\* Lidar.scan(robot, environment); rnds[i] is the Math.random() draw of ray i - 1
Scan(lid, rob, ws, rnds) ==
    [i \in 1 .. lid.numRays |-> Ray(lid, rob, ws, RayAngle(lid, rob, i - 1), rnds[i])]

\* ================================================================== main.js
\* The application state of main.js and its event handlers.  What
\* findBestFrontier and findPath return to the exploration loop and to a click
\* is drawn from the values they can return (none or a target; the empty path
\* or a path), for any belief grid and any pose.
Cooldown == 30
RetryCooldown == 15
MinWallLength == 10
\* sweepSoundCounter >= 6: the sweep tick sounds every sixth frame
SweepPeriod == 6

\* isBuilding, buildStart, buildCurrent
NotBuilding == [isBuilding |-> FALSE, start |-> << >>, current |-> << >>]

\* robot.path = null
ClearPath(b) == [b EXCEPT !.hasPath = FALSE, !.path = << >>]

\* robot.path = null; robot.forwardSpeed = 0; robot.turnSpeed = 0
StopRobot(b) == [ClearPath(b) EXCEPT !.forwardSpeed = 0, !.turnSpeed = 0]

\* robot.path && robot.pathIndex < robot.path.length
PathActive(b) == b.hasPath /\ b.pathIndex < Len(b.path)

\* The robot as resetSimulation leaves it: back at the canvas centre, heading 0,
\* without a path; speeds and path index stay.
ResetRobot(b, cx, cy) ==
    [ClearPath(b) EXCEPT !.x = cx, !.y = cy, !.theta = 0,
                         !.believedX = cx, !.believedY = cy, !.believedTheta = 0]

\* |buildCurrent - buildStart| > 10
LongEnough(p, q) ==
    (q.x - p.x) * (q.x - p.x) + (q.y - p.y) * (q.y - p.y)
      > (MinWallLength * PosScale) * (MinWallLength * PosScale)

\* handleFrontierExploration, once a target was found: the path is applied if
\* it is not empty; otherwise the retry comes after a shorter wait.
ExplorePath(b, p) ==
    IF Len(p) > 0 THEN [bot |-> SetPath(b, p), frontierCooldown |-> 0]
    ELSE [bot |-> b, frontierCooldown |-> RetryCooldown]

\* An exploration loop that keeps running when no frontier is left.
ExploreTargetNeverDone(b, t, p) ==
    [bot |-> ExplorePath(b, p).bot, frontierCooldown |-> ExplorePath(b, p).frontierCooldown,
     autoExploreActive |-> TRUE, frontierTarget |-> t,
     result |-> IF t = NoTarget THEN "none" ELSE IF Len(p) > 0 THEN "path" ELSE "noPath"]

\* handleFrontierExploration from the call of findBestFrontier on: t is what
\* findBestFrontier returned, p what findPath returns for it.
ExploreTarget(b, t, p) ==
    IF t # NoTarget
    THEN [bot |-> ExplorePath(b, p).bot, frontierCooldown |-> ExplorePath(b, p).frontierCooldown,
          autoExploreActive |-> TRUE, frontierTarget |-> t,
          result |-> IF Len(p) > 0 THEN "path" ELSE "noPath"]
    ELSE [bot |-> b, frontierCooldown |-> 0,
          autoExploreActive |-> FALSE, frontierTarget |-> t, result |-> "none"]

\* An exploration loop that also searches while the robot follows a path.
HandleFrontierExplorationBusy(b, active, ft, cd, t, p) ==
    IF ~active
    THEN [bot |-> b, frontierCooldown |-> cd, autoExploreActive |-> active,
          frontierTarget |-> ft, result |-> "idle"]
    ELSE IF cd + 1 < Cooldown
    THEN [bot |-> b, frontierCooldown |-> cd + 1, autoExploreActive |-> active,
          frontierTarget |-> ft, result |-> "idle"]
    ELSE ExploreTarget(b, t, p)

\* An exploration loop without the wait between two searches.
HandleFrontierExplorationEager(b, active, ft, cd, t, p) ==
    IF ~active \/ PathActive(b)
    THEN [bot |-> b, frontierCooldown |-> cd, autoExploreActive |-> active,
          frontierTarget |-> ft, result |-> "idle"]
    ELSE ExploreTarget(b, t, p)

\* handleFrontierExploration.  result tells whether findBestFrontier was
\* called ("idle": it was not) and what came of it.
HandleFrontierExploration(b, active, ft, cd, t, p) ==
    IF ~active \/ PathActive(b)
    THEN [bot |-> b, frontierCooldown |-> cd, autoExploreActive |-> active,
          frontierTarget |-> ft, result |-> "idle"]
    ELSE IF cd + 1 < Cooldown
    THEN [bot |-> b, frontierCooldown |-> cd + 1, autoExploreActive |-> active,
          frontierTarget |-> ft, result |-> "idle"]
    ELSE ExploreTarget(b, t, p)

\* A keydown handler that stops the exploration but keeps its target.
KeyDownKeepTarget(mode, ks, active, ft, k) ==
    IF mode # "drive"
    THEN [keys |-> ks, autoExploreActive |-> active, frontierTarget |-> ft]
    ELSE [keys |-> ks \cup {k}, autoExploreActive |-> FALSE, frontierTarget |-> ft]

\* The keydown handler, for one of the keys w, a, s, d.
KeyDown(mode, ks, active, ft, k) ==
    IF mode # "drive"
    THEN [keys |-> ks, autoExploreActive |-> active, frontierTarget |-> ft]
    ELSE [keys |-> ks \cup {k}, autoExploreActive |-> FALSE,
          frontierTarget |-> IF active THEN NoTarget ELSE ft]

\* A click handler that takes the empty path for a path.
SlamClickAlways(b, active, ft, p) ==
    [bot |-> SetPath(b, p), autoExploreActive |-> FALSE, frontierTarget |-> NoTarget]

\* The slamCanvas mousedown handler in drive mode; p is what findPath returned.
SlamClick(b, active, ft, p) ==
    IF Len(p) > 0
    THEN [bot |-> SetPath(b, p), autoExploreActive |-> FALSE,
          frontierTarget |-> IF active THEN NoTarget ELSE ft]
    ELSE [bot |-> b, autoExploreActive |-> active, frontierTarget |-> ft]

\* Environment.importWalls(jsonString): data tells whether JSON.parse returns,
\* and which of baseWalls and customWalls the parsed value holds.
ImportWalls(base, custom, data) ==
    IF ~data.parses THEN [ok |-> FALSE, baseWalls |-> base, customWalls |-> custom]
    ELSE [ok |-> TRUE,
          baseWalls |-> IF data.hasBase THEN data.baseWalls ELSE base,
          customWalls |-> IF data.hasCustom THEN data.customWalls ELSE custom]

\* A commitWall that leaves the belief grid alone.
CommitWallKeepMap(bd, custom, g) ==
    IF bd.isBuilding /\ LongEnough(bd.start, bd.current)
    THEN [customWalls |-> custom \cup {[start |-> bd.start, end |-> bd.current]},
          grid |-> g, committed |-> TRUE]
    ELSE [customWalls |-> custom, grid |-> g, committed |-> FALSE]

\* commitWall: environment.addCustomWall and mapper.clear for a drag longer than
\* 10.  customWalls is kept as a set (drawing the same wall twice adds nothing
\* to what getWalls describes).
CommitWall(bd, custom, g) ==
    IF bd.isBuilding /\ LongEnough(bd.start, bd.current)
    THEN [customWalls |-> custom \cup {[start |-> bd.start, end |-> bd.current]},
          grid |-> Clear(g), committed |-> TRUE]
    ELSE [customWalls |-> custom, grid |-> g, committed |-> FALSE]

\* ---------------------------------------------------------------- inputs
\* Robot poses handed to updateMap (x, y, radius are all it reads).
RobotPoses == { [x |-> 5, y |-> 15, radius |-> Radius],
                [x |-> 22, y |-> 28, radius |-> Radius] }

\* Ray directions as <<ux, uy, len>>: the unit vector (ux/len, uy/len).
East == <<1, 0, 1>>
West == <<-1, 0, 1>>
Slant == <<3, 4, 5>>

\* What Lidar.scan reports for a ray of direction d: a wall at (noisy)
\* distance k along the ray.
WallHit(rob, d, k) ==
    [x |-> rob.x + (d[1] * k) \div d[3], y |-> rob.y + (d[2] * k) \div d[3],
     distance |-> k, angle |-> d, hit |-> TRUE]

\* ... or no wall: the ray's end point at exactly maxRange.
Miss(rob, d) ==
    [x |-> rob.x + (d[1] * MaxRange) \div d[3], y |-> rob.y + (d[2] * MaxRange) \div d[3],
     distance |-> MaxRange, angle |-> d, hit |-> FALSE]

\* The rays tried from a pose: walls beyond the radius, a wall at exactly the
\* radius, a wall left of the grid, and a max-range miss.
RayHits(rob) ==
    { WallHit(rob, East, 25), WallHit(rob, East, 35), WallHit(rob, West, 25),
      WallHit(rob, Slant, 20), WallHit(rob, Slant, 25), Miss(rob, Slant) }

\* A scan holds one reading per ray, and the rays of a scan differ in angle.
Scans(rob) ==
    { s \in UNION { [1..n -> RayHits(rob)] : n \in 1..MaxRays } :
        \A i, j \in DOMAIN s : i # j => s[i].angle # s[j].angle }

KnownCells(g) == { i \in DOMAIN g : g[i] # UNKNOWN }

\* Belief grids handed to the planner: up to two OCCUPIED cells anywhere, the
\* other cells FREE or UNKNOWN.
PlanGrids ==
    { [i \in Indices |-> IF i \in W THEN OCCUPIED ELSE IF i % 2 = 0 THEN FREE ELSE UNKNOWN] :
        W \in {{}} \cup { {a, b} : a, b \in Indices } }

\* Robot positions findPath is called from (main.js passes robot.x, robot.y).
\* A point inside every cell:
CellPoints ==
    { [x |-> c * CellSize + 3, y |-> r * CellSize + 7] : c \in 0 .. (Cols - 1), r \in 0 .. (Rows - 1) }

\* A corner cell, an inner cell, and two points off the grid: right of row 0,
\* where the flat cell index col + row * cols falls inside the arrays, and
\* above-left of the grid, where it falls outside them.
StartPoints ==
    { [x |-> 3, y |-> 7], [x |-> 2 * CellSize + 3, y |-> CellSize + 7],
      [x |-> Cols * CellSize + 2, y |-> 4], [x |-> -3, y |-> -8] }

\* Belief grids handed to the frontier explorer: every inner cell in any of the
\* three states, the border cells all in one state.
IsInner(i) == /\ i % Cols >= 1 /\ i % Cols < Cols - 1 /\ i \div Cols >= 1 /\ i \div Cols < Rows - 1

FrontierGrids ==
    { [i \in Indices |-> IF IsInner(i) THEN inner[i] ELSE border] :
        inner \in [{ i \in Indices : IsInner(i) } -> {UNKNOWN, FREE, OCCUPIED}],
        border \in {UNKNOWN, FREE, OCCUPIED} }

\* Robot positions findBestFrontier is called from: inside and off the grid.
ExplorerPoints == { [x |-> 2 * CellSize + 3, y |-> CellSize + 7], [x |-> -3, y |-> -8] }

HasWall(g) == \E i \in DOMAIN g : g[i] = OCCUPIED

\* Goal points (a click or a frontier target): a point inside every cell, and
\* points right of and above the grid.
GoalPoints ==
    { [x |-> c * CellSize + 6, y |-> r * CellSize + 2] : c \in 0 .. (Cols - 1), r \in 0 .. (Rows - 1) }
    \cup { [x |-> Cols * CellSize + 1, y |-> 5], [x |-> 15, y |-> -4] }

\* The walls around the robot (Environment.getWalls()), in fixed point: one
\* ahead of the start pose and one across the way south.
Wall(x1, y1, x2, y2) ==
    [start |-> [x |-> x1 * PosScale, y |-> y1 * PosScale],
     end |-> [x |-> x2 * PosScale, y |-> y2 * PosScale]]
Walls == { Wall(100, 0, 100, 200), Wall(0, 140, 100, 140) }

\* Poses the robot is in when a run starts: as constructed, heading east 25
\* units from the wall ahead, and later on, heading south (y grows downwards)
\* 24 units from the other wall.
StartRobots ==
    { NewRobot(75, 100),
      [NewRobot(75, 116) EXCEPT !.theta = 15500, !.believedTheta = 15500] }

\* Values of the drift and speed sliders
Drifts == {0, 50}
SpeedMultipliers == {5, 50}

\* Keys held during a tick
KeySets == { {}, {"w"}, {"s"}, {"d"}, {"w", "a"} }

\* Paths handed to setPath, as findPath builds them (cell centres): one cell
\* away; the robot's own cell and then its neighbour; straight south across
\* the wall.
PathPoint(wx, wy) == [x |-> wx * PosScale, y |-> wy * PosScale]
Paths ==
    { << PathPoint(85, 105) >>,
      << PathPoint(75, 105), PathPoint(85, 105) >>,
      << PathPoint(75, 165) >> }

\* Draws of Math.random(), in thousandths, for the three noise terms
Rands == { <<0, 0, 0>>, <<999, 999, 999>>, <<500, 0, 999>> }

\* Wall segments in whole world units
Segment(x1, y1, x2, y2) == [start |-> [x |-> x1, y |-> y1], end |-> [x |-> x2, y |-> y2]]

\* Wall sets the sensor looks at: none; one wall across the x axis ray; a
\* second, nearer wall in front of it and a slanted one; a wall lying along the
\* ray of angle 0; a wall that the ray of angle 0 meets at exactly maxRange.
ScanWalls ==
    { {},
      { Segment(300, 100, 300, 500) },
      { Segment(300, 100, 300, 500), Segment(250, 280, 250, 400), Segment(60, 200, 140, 120) },
      { Segment(200, 300, 400, 300) },
      { Segment(700, 100, 700, 500) } }

\* Poses the scan is taken from
ScanPoses ==
    { [x |-> 100, y |-> 300, theta |-> 0],
      [x |-> 100, y |-> 300, theta |-> 500],
      [x |-> 350, y |-> 290, theta |-> Pi] }

\* Settings of the ray-density and noise sliders
RayCounts == 1 .. (2 * MaxRays)
NoisePercents == {0, 2, 5}

\* Draws of Math.random(), in hundredths
Draws == {0, 50, 75}

\* One call of updateMap on its own. Poses: those above and one near the left
\* edge of a cell. Readings: those above, a wall 29 east and a wall 30 along
\* the slant. Grids: cleared, and all FREE.
MapPoses == RobotPoses \cup { [x |-> 4, y |-> 15, radius |-> Radius] }

MapHits(rob) == RayHits(rob) \cup { WallHit(rob, East, 29), WallHit(rob, Slant, 30) }

MapScans(rob) ==
    { s \in UNION { [1..n -> MapHits(rob)] : n \in 1..MaxRays } :
        \A i, j \in DOMAIN s : i # j => s[i].angle # s[j].angle }

MapGrids == { EmptyGrid, [i \in Indices |-> FREE] }

\* The planner and the explorer side by side on one grid: grids with a wall of
\* two cells (the other cells FREE and UNKNOWN in turn), and grids whose inner
\* cells are all FREE (a frontier wherever the border is UNKNOWN).  Robot: on
\* an inner cell, and right of row 0.  Goals: a cell on the grid and a point
\* right of it.
ReadGrids ==
    { [i \in Indices |-> IF i \in {a, a + Cols + 1} THEN OCCUPIED
                         ELSE IF i % 2 = 0 THEN FREE ELSE UNKNOWN] :
        a \in 0 .. (NumNodes - Cols - 2) }
    \cup { [i \in Indices |-> IF IsInner(i) THEN FREE ELSE b] :
             b \in {UNKNOWN, FREE, OCCUPIED} }
ReadPoints == { [x |-> CellSize + 3, y |-> CellSize + 7], [x |-> Cols * CellSize + 2, y |-> 4] }
ReadGoals == { [x |-> (Cols - 1) * CellSize + 6, y |-> (Rows - 1) * CellSize + 2],
               [x |-> Cols * CellSize + 1, y |-> 5] }

\* The application: the canvas is 150 x 200 with the robot at its centre, the
\* boundary wall ahead of it.  Maps: the boundary alone, or with a wall to the
\* north (a preset, or what generateRandomMap came up with).
North == Wall(0, 60, 100, 60)
RandomMaps == { Walls, Walls \cup {North} }
Presets == {"open", "maze", "random"}
PresetWalls(name) == IF name = "maze" THEN Walls \cup {North} ELSE Walls

\* Points of a drag on the canvas: 5 apart and 30 apart
BuildPoints == { PathPoint(60, 130), PathPoint(65, 130), PathPoint(90, 130) }

\* Files handed to the import: not JSON; JSON without walls; base walls only;
\* base and custom walls.
ImportData ==
    { [parses |-> FALSE, hasBase |-> FALSE, hasCustom |-> FALSE, baseWalls |-> {}, customWalls |-> {}],
      [parses |-> TRUE, hasBase |-> FALSE, hasCustom |-> FALSE, baseWalls |-> {}, customWalls |-> {}],
      [parses |-> TRUE, hasBase |-> TRUE, hasCustom |-> FALSE, baseWalls |-> Walls \cup {North}, customWalls |-> {}],
      [parses |-> TRUE, hasBase |-> TRUE, hasCustom |-> TRUE, baseWalls |-> Walls,
       customWalls |-> { [start |-> PathPoint(60, 130), end |-> PathPoint(90, 130)] }] }

\* What the mapper sees in a tick: the robot in whole world units, and one ray
\* that ends on a wall in the corner of the canvas that the grid covers.
MapperPose(b) == [x |-> b.x \div PosScale, y |-> b.y \div PosScale, radius |-> b.radius \div PosScale]
NorthWest == <<-3, -4, 5>>
TickScan(b) ==
    << [x |-> 15, y |-> 20, distance |-> MaxRange \div 6, angle |-> NorthWest, hit |-> TRUE] >>

\* Keys of the keyboard handlers
DriveKeys == {"w"}

\* What findBestFrontier returns when it finds a frontier, and the paths findPath
\* returns, all straight ahead of the robot: to a cell 10 ahead; through it to
\* the next one; to a cell behind the wall ahead.
FrontierTargets == { [xn |-> 85, yn |-> 100, den |-> 1] }
AppPaths ==
    { << PathPoint(85, 100) >>,
      << PathPoint(85, 100), PathPoint(90, 100) >>,
      << PathPoint(125, 100) >> }

\* Frontier-cell lists handed to _clusterFrontiers: what _detectFrontiers
\* returns on a larger mapper grid whose frontier lies in a square block of
\* inner cells or in one column of them.  A cell whose four neighbours are all
\* frontier cells (so all FREE) is no frontier cell; the list is row by row,
\* as _detectFrontiers pushes it.
FrontierCell(c, r) == [col |-> c, row |-> r]
Block == { FrontierCell(c, r) : c \in 1 .. BlockSize, r \in 1 .. BlockSize }
Column == { FrontierCell(1, r) : r \in 1 .. ColumnSize }
Touching(a, b) == Abs(a.col - b.col) + Abs(a.row - b.row) = 1
Detectable(S) ==
    \A a \in S : \E c \in {a.col - 1, a.col + 1}, r \in {a.row - 1, a.row + 1} :
        FrontierCell(c, a.row) \notin S \/ FrontierCell(a.col, r) \notin S

RECURSIVE RowByRow(_)
RowByRow(S) ==
    IF S = {} THEN << >>
    ELSE LET first == CHOOSE a \in S :
                          \A b \in S : a.row < b.row \/ (a.row = b.row /\ a.col <= b.col)
         IN  << first >> \o RowByRow(S \ {first})

ClusterInputs ==
    { RowByRow(S) : S \in { T \in (SUBSET Block) \cup (SUBSET Column) : Detectable(T) } }

\* Robot positions the clusters are scored from: in the block, off the grid
\* above-left, and low in the column.
ScorePoints == ExplorerPoints \cup { [x |-> CellSize + 3, y |-> 7 * CellSize + 4] }

\* A mapper one column and one row larger, and the belief grids of a room
\* seen from inside: the outermost ring still UNKNOWN, every inner cell FREE or
\* OCCUPIED.
RoomCols == Cols + 1
RoomRows == Rows + 1
RoomInner ==
    { i \in 0 .. (RoomCols * RoomRows - 1) :
        /\ i % RoomCols >= 1 /\ i % RoomCols < RoomCols - 1
        /\ i \div RoomCols >= 1 /\ i \div RoomCols < RoomRows - 1 }
RoomGrids ==
    { [i \in 0 .. (RoomCols * RoomRows - 1) |-> IF i \in RoomInner THEN inner[i] ELSE UNKNOWN] :
        inner \in [RoomInner -> {FREE, OCCUPIED}] }

\* ------------------------------------------------------------ state machine
\* The parts of the state a specification does not exercise stay as built.
MapperAtRest == grid = EmptyGrid /\ refused = FALSE /\ hadKnown = FALSE
PlannerAtRest ==
    /\ robot = [x |-> 5, y |-> 15]
    /\ goal = [x |-> 5, y |-> 15]
    /\ path = << >>
    /\ pops = 0
    /\ target = NoTarget
LidarAtRest == lidar = NewLidar /\ scan = << >> /\ sweepSoundCounter = 0
ExplorerAtRest == frontierCells = << >> /\ clusters = << >>
RobotAtRest ==
    /\ bot = NewRobot(75, 100)
    /\ walls = {}
    /\ hitWall = FALSE
    /\ keys = {}
    /\ pathWasSet = FALSE

AppAtRest ==
    /\ interactionMode = "drive"
    /\ autoExploreActive = FALSE
    /\ frontierTarget = NoTarget
    /\ frontierCooldown = 0
    /\ build = NotBuilding
    /\ customWalls = {}
    /\ lastSearch = [result |-> "never", age |-> Cooldown]
    /\ cancelled = FALSE
Init ==
    /\ grid = EmptyGrid
    /\ op = "init"
    /\ calls = 0
    /\ refused = FALSE
    /\ hadKnown = FALSE
    /\ robot = [x |-> 5, y |-> 15]
    /\ goal = [x |-> 5, y |-> 15]
    /\ path = << >>
    /\ pops = 0
    /\ target = NoTarget
    /\ RobotAtRest
    /\ LidarAtRest
    /\ AppAtRest
    /\ ExplorerAtRest

DoUpdateMap ==
    /\ calls < MaxCalls
    /\ \E rob \in RobotPoses : \E hits \in Scans(rob) :
         \E r \in { UpdateMap(grid, rob, hits) } :
             /\ grid' = r.grid
             /\ refused' = r.refused
    /\ hadKnown' = (KnownCells(grid) # {})
    /\ op' = "updateMap"
    /\ calls' = calls + 1
    /\ UNCHANGED <<robot, goal, path, pops, target, robotVars, lidarVars, appVars, explorerVars>>

DoClear ==
    /\ calls < MaxCalls + 1
    /\ grid' = Clear(grid)
    /\ refused' = FALSE
    /\ hadKnown' = (KnownCells(grid) # {})
    /\ op' = "clear"
    /\ calls' = calls + 1
    /\ UNCHANGED <<robot, goal, path, pops, target, robotVars, lidarVars, appVars, explorerVars>>

Next == DoUpdateMap \/ DoClear

Spec == Init /\ [][Next]_vars

\* The planner on its own: a belief grid, a robot position and a goal, and one
\* call of findPath.
InitPlan ==
    /\ grid \in PlanGrids
    /\ robot \in IF HasWall(grid) THEN StartPoints ELSE StartPoints \cup CellPoints
    /\ goal \in GoalPoints
    /\ op = "plan"
    /\ calls = 0
    /\ refused = FALSE
    /\ hadKnown = FALSE
    /\ path = << >>
    /\ pops = 0
    /\ target = NoTarget
    /\ RobotAtRest
    /\ LidarAtRest
    /\ AppAtRest
    /\ ExplorerAtRest

\* A planner that marks the robot's own cell FREE before it searches.
DoFindPathMarking ==
    /\ op = "plan"
    /\ \E r \in { FindPath(grid, robot.x, robot.y, goal.x, goal.y) } :
         /\ path' = r.path
         /\ pops' = r.pops
    /\ grid' = MarkCell(grid, robot.x, robot.y, 1, FREE)
    /\ op' = "findPath"
    /\ UNCHANGED <<calls, refused, hadKnown, robot, goal, target, robotVars, lidarVars, appVars, explorerVars>>

\* AStar.findPath as main.js calls it: the path is kept, the grid is only read.
DoFindPath ==
    /\ op = "plan"
    /\ \E r \in { FindPath(grid, robot.x, robot.y, goal.x, goal.y) } :
         /\ path' = r.path
         /\ pops' = r.pops
    /\ op' = "findPath"
    /\ UNCHANGED <<grid, calls, refused, hadKnown, robot, goal, target, robotVars, lidarVars, appVars, explorerVars>>

NextPlan == DoFindPath

SpecPlan == InitPlan /\ [][NextPlan]_vars

\* The frontier explorer on its own: a belief grid, a robot position, and one
\* call of findBestFrontier.
InitFrontier ==
    /\ grid \in FrontierGrids
    /\ robot \in ExplorerPoints
    /\ goal = [x |-> 5, y |-> 15]
    /\ op = "explore"
    /\ calls = 0
    /\ refused = FALSE
    /\ hadKnown = FALSE
    /\ path = << >>
    /\ pops = 0
    /\ target = NoTarget
    /\ RobotAtRest
    /\ LidarAtRest
    /\ AppAtRest
    /\ ExplorerAtRest

DoFindBestFrontier ==
    /\ op = "explore"
    /\ target' = FindBestFrontier(grid, robot.x, robot.y)
    /\ op' = "findBestFrontier"
    /\ UNCHANGED <<grid, calls, refused, hadKnown, robot, goal, path, pops, robotVars, lidarVars, appVars, explorerVars>>

NextFrontier == DoFindBestFrontier

SpecFrontier == InitFrontier /\ [][NextFrontier]_vars

\* The readers and the writers of one grid: a call of findPath or of
\* findBestFrontier on a belief grid, and the mapper's updateMap and clear.
InitRead ==
    /\ grid \in ReadGrids
    /\ robot \in ReadPoints
    /\ goal \in ReadGoals
    /\ op \in {"plan", "explore"}
    /\ calls = 0
    /\ refused = FALSE
    /\ hadKnown = FALSE
    /\ path = << >>
    /\ pops = 0
    /\ target = NoTarget
    /\ RobotAtRest
    /\ LidarAtRest
    /\ AppAtRest
    /\ ExplorerAtRest

NextRead == DoFindPath \/ DoFindBestFrontier \/ DoUpdateMap \/ DoClear

SpecRead == InitRead /\ [][NextRead]_vars

\* The robot on its own: the calls main.js makes on it, in any order.  keys is
\* the last input applied, pathWasSet whether a path was set when it arrived.
InitRobot ==
    /\ bot \in { SetDrift(b, d) : b \in StartRobots, d \in Drifts }
    /\ walls = Walls
    /\ hitWall = FALSE
    /\ keys = {}
    /\ pathWasSet = FALSE
    /\ op = "robot"
    /\ calls = 0
    /\ MapperAtRest
    /\ PlannerAtRest
    /\ LidarAtRest
    /\ AppAtRest
    /\ ExplorerAtRest

DoApplyInput ==
    /\ calls < MaxTicks
    /\ \E ks \in KeySets :
         /\ keys' = ks
         /\ bot' = ApplyInput(bot, ks)
    /\ pathWasSet' = bot.hasPath
    /\ op' = "applyInput"
    /\ calls' = calls + 1
    /\ UNCHANGED <<walls, hitWall, mapperVars, plannerVars, lidarVars, appVars, explorerVars>>

DoSetPath ==
    /\ calls < MaxTicks
    /\ \E p \in Paths : bot' = SetPath(bot, p)
    /\ op' = "setPath"
    /\ calls' = calls + 1
    /\ UNCHANGED <<walls, hitWall, keys, pathWasSet, mapperVars, plannerVars, lidarVars, appVars, explorerVars>>

DoSetDrift ==
    /\ calls < MaxTicks
    /\ \E d \in Drifts \ {bot.driftAmount} : bot' = SetDrift(bot, d)
    /\ op' = "setDrift"
    /\ calls' = calls + 1
    /\ UNCHANGED <<walls, hitWall, keys, pathWasSet, mapperVars, plannerVars, lidarVars, appVars, explorerVars>>

DoSetSpeedMultiplier ==
    /\ calls < MaxTicks
    /\ \E m \in SpeedMultipliers \ {bot.maxSpeed \div PosScale} :
         bot' = SetSpeedMultiplier(bot, m)
    /\ op' = "setSpeedMultiplier"
    /\ calls' = calls + 1
    /\ UNCHANGED <<walls, hitWall, keys, pathWasSet, mapperVars, plannerVars, lidarVars, appVars, explorerVars>>

DoUpdate ==
    /\ calls < MaxTicks
    /\ \E rnd \in IF bot.driftAmount = 0 THEN { <<0, 0, 0>> } ELSE Rands :
         \E r \in { Update(bot, walls, rnd) } :
             /\ bot' = r.bot
             /\ hitWall' = r.hitWall
    /\ op' = "update"
    /\ calls' = calls + 1
    /\ UNCHANGED <<walls, keys, pathWasSet, mapperVars, plannerVars, lidarVars, appVars, explorerVars>>

NextRobot == DoApplyInput \/ DoSetPath \/ DoSetDrift \/ DoSetSpeedMultiplier \/ DoUpdate

SpecRobot == InitRobot /\ [][NextRobot]_vars

\* The sensor on its own: a pose, a wall set and the slider settings, and one
\* call of scan.
InitLidar ==
    /\ lidar \in { SetParameters(NewLidar, n, p) : n \in RayCounts, p \in NoisePercents }
    /\ robot \in ScanPoses
    /\ walls \in ScanWalls
    /\ scan = << >>
    /\ sweepSoundCounter = 0
    /\ op = "lidar"
    /\ calls = 0
    /\ MapperAtRest
    /\ goal = [x |-> 5, y |-> 15]
    /\ path = << >>
    /\ pops = 0
    /\ target = NoTarget
    /\ bot = NewRobot(75, 100)
    /\ hitWall = FALSE
    /\ keys = {}
    /\ pathWasSet = FALSE
    /\ AppAtRest
    /\ ExplorerAtRest

DoScan ==
    /\ op = "lidar"
    /\ \E rnds \in [1 .. lidar.numRays ->
                      IF lidar.noisePercent > 0 THEN Draws ELSE {0}] :
         scan' = Scan(lidar, robot, walls, rnds)
    /\ op' = "scan"
    /\ UNCHANGED <<lidar, sweepSoundCounter, calls, mapperVars, plannerVars, robotVars, appVars, explorerVars>>

NextLidar == DoScan

SpecLidar == InitLidar /\ [][NextLidar]_vars

\* The mapper on its own: a grid, a pose and a scan, and one call of updateMap.
InitMap ==
    /\ grid \in MapGrids
    /\ robot \in MapPoses
    /\ scan \in MapScans(robot)
    /\ lidar = NewLidar
    /\ sweepSoundCounter = 0
    /\ op = "map"
    /\ calls = 0
    /\ refused = FALSE
    /\ hadKnown = FALSE
    /\ goal = [x |-> 5, y |-> 15]
    /\ path = << >>
    /\ pops = 0
    /\ target = NoTarget
    /\ RobotAtRest
    /\ AppAtRest
    /\ ExplorerAtRest

DoUpdateMapOnce ==
    /\ op = "map"
    /\ \E r \in { UpdateMap(grid, robot, scan) } :
         /\ grid' = r.grid
         /\ refused' = r.refused
    /\ hadKnown' = (KnownCells(grid) # {})
    /\ op' = "updateMap"
    /\ UNCHANGED <<calls, plannerVars, robotVars, lidarVars, appVars, explorerVars>>

NextMap == DoUpdateMapOnce

SpecMap == InitMap /\ [][NextMap]_vars

\* The application: every handler of main.js that touches the exploration
\* state, the robot's path, the walls or the belief grid, and the frame loop.
\* lastSearch remembers what the last call of findBestFrontier returned and how
\* many ticks ago it was made; cancelled tells that the last command switched
\* auto-exploration off while it was on.  op names the handler that ran last:
\* for the frame loop "tick", or "search" if it called findBestFrontier, or
\* "retry" if it did and the call before had found a target without a path.
InitApp ==
    /\ bot = NewRobot(75, 100)
    /\ walls = Walls
    /\ hitWall = FALSE
    /\ keys = {}
    /\ pathWasSet = FALSE
    /\ AppAtRest
    /\ ExplorerAtRest
    /\ op = "app"
    /\ calls = 0
    /\ MapperAtRest
    /\ PlannerAtRest
    /\ LidarAtRest

\* animate(): applyInput, update, scan, updateMap, handleFrontierExploration
Tick ==
    \E r \in { Update(ApplyInput(bot, keys), walls \cup customWalls, <<0, 0, 0>>) } :
    \E m \in { UpdateMap(grid, MapperPose(r.bot), TickScan(r.bot)) } :
    \E t \in {NoTarget} \cup FrontierTargets : \E p \in {<< >>} \cup AppPaths :
    \E e \in { HandleFrontierExploration(r.bot, autoExploreActive, frontierTarget,
                                         frontierCooldown, t, p) } :
        /\ bot' = e.bot
        /\ hitWall' = r.hitWall
        /\ grid' = m.grid
        /\ refused' = m.refused
        /\ hadKnown' = (KnownCells(grid) # {})
        /\ autoExploreActive' = e.autoExploreActive
        /\ frontierTarget' = e.frontierTarget
        /\ frontierCooldown' = e.frontierCooldown
        /\ lastSearch' = IF e.result # "idle" THEN [result |-> e.result, age |-> 0]
                         ELSE [lastSearch EXCEPT !.age = Min(@ + 1, Cooldown)]
        /\ cancelled' = FALSE
        /\ op' = IF e.result = "idle" THEN "tick"
                 ELSE IF lastSearch.result = "noPath" THEN "retry" ELSE "search"
        /\ UNCHANGED <<calls, plannerVars, explorerVars, lidarVars, walls, keys, pathWasSet,
                       interactionMode, build, customWalls>>

DoKeyDown ==
    /\ calls < MaxCommands
    /\ calls' = calls + 1
    /\ \E k \in DriveKeys :
       \E r \in { KeyDown(interactionMode, keys, autoExploreActive, frontierTarget, k) } :
           /\ keys' = r.keys
           /\ autoExploreActive' = r.autoExploreActive
           /\ frontierTarget' = r.frontierTarget
           /\ cancelled' = (interactionMode = "drive" /\ autoExploreActive)
           /\ op' = "command"
           /\ UNCHANGED <<mapperVars, plannerVars, explorerVars, lidarVars, bot, walls, hitWall, pathWasSet,
                          interactionMode, frontierCooldown, build, customWalls, lastSearch>>

DoKeyUp ==
    /\ calls < MaxCommands
    /\ calls' = calls + 1
    /\ \E k \in DriveKeys :
           /\ keys' = keys \ {k}
           /\ op' = "command"
           /\ UNCHANGED <<mapperVars, plannerVars, lidarVars, bot, walls, hitWall, pathWasSet,
                          appVars, explorerVars>>

ClickDriveMode ==
    /\ calls < MaxCommands
    /\ calls' = calls + 1
    /\ interactionMode' = "drive"
    /\ cancelled' = FALSE
    /\ op' = "command"
    /\ UNCHANGED <<mapperVars, plannerVars, explorerVars, lidarVars, robotVars,
                   autoExploreActive, frontierTarget, frontierCooldown, build, customWalls,
                   lastSearch>>

ClickBuildMode ==
    /\ calls < MaxCommands
    /\ calls' = calls + 1
    /\ interactionMode' = "build"
    /\ bot' = StopRobot(bot)
    /\ autoExploreActive' = FALSE
    /\ frontierTarget' = NoTarget
    /\ cancelled' = autoExploreActive
    /\ op' = "command"
    /\ UNCHANGED <<mapperVars, plannerVars, explorerVars, lidarVars, walls, hitWall, keys, pathWasSet,
                   frontierCooldown, build, customWalls, lastSearch>>

\* An auto-explore button that leaves the interaction mode as it is.
ClickAutoExploreKeepMode ==
    /\ calls < MaxCommands
    /\ calls' = calls + 1
    /\ autoExploreActive' = ~autoExploreActive
    /\ IF ~autoExploreActive
       THEN UNCHANGED <<bot, frontierTarget>>
       ELSE /\ bot' = StopRobot(bot)
            /\ frontierTarget' = NoTarget
    /\ cancelled' = autoExploreActive
    /\ op' = "autoExplore"
    /\ UNCHANGED <<mapperVars, plannerVars, explorerVars, lidarVars, walls, hitWall, keys, pathWasSet,
                   interactionMode, frontierCooldown, build, customWalls, lastSearch>>

ClickAutoExplore ==
    /\ calls < MaxCommands
    /\ calls' = calls + 1
    /\ autoExploreActive' = ~autoExploreActive
    /\ IF ~autoExploreActive
       THEN /\ interactionMode' = "drive"
            /\ UNCHANGED <<bot, frontierTarget>>
       ELSE /\ bot' = StopRobot(bot)
            /\ frontierTarget' = NoTarget
            /\ UNCHANGED interactionMode
    /\ cancelled' = autoExploreActive
    /\ op' = "autoExplore"
    /\ UNCHANGED <<mapperVars, plannerVars, explorerVars, lidarVars, walls, hitWall, keys, pathWasSet,
                   frontierCooldown, build, customWalls, lastSearch>>

\* The slamCanvas mousedown handler
SlamMouseDown ==
    /\ calls < MaxCommands
    /\ calls' = calls + 1
    /\ \/ /\ interactionMode # "drive"
          /\ op' = "command"
          /\ UNCHANGED <<bot, autoExploreActive, frontierTarget>>
       \/ /\ interactionMode = "drive"
          /\ \E p \in {<< >>} \cup AppPaths :
             \E r \in { SlamClick(bot, autoExploreActive, frontierTarget, p) } :
                 /\ bot' = r.bot
                 /\ autoExploreActive' = r.autoExploreActive
                 /\ frontierTarget' = r.frontierTarget
                 /\ op' = IF Len(p) > 0 THEN "slamClick" ELSE "slamClickFailed"
    /\ cancelled' = FALSE
    /\ UNCHANGED <<mapperVars, plannerVars, explorerVars, lidarVars, walls, hitWall, keys, pathWasSet,
                   interactionMode, frontierCooldown, build, customWalls, lastSearch>>

\* The realWorldCanvas mousedown and mousemove handlers
BuildMouseDown ==
    /\ calls < MaxEdits
    /\ calls' = calls + 1
    /\ \/ /\ interactionMode # "build"
          /\ UNCHANGED build
       \/ /\ interactionMode = "build"
          /\ \E q \in BuildPoints : build' = [isBuilding |-> TRUE, start |-> q, current |-> q]
    /\ cancelled' = FALSE
    /\ op' = "buildDown"
    /\ UNCHANGED <<mapperVars, plannerVars, explorerVars, lidarVars, robotVars,
                   interactionMode, autoExploreActive, frontierTarget, frontierCooldown,
                   customWalls, lastSearch>>

BuildMouseMove ==
    /\ calls < MaxEdits
    /\ calls' = calls + 1
    /\ \/ /\ ~build.isBuilding \/ interactionMode # "build"
          /\ UNCHANGED build
       \/ /\ build.isBuilding /\ interactionMode = "build"
          /\ \E q \in BuildPoints : build' = [build EXCEPT !.current = q]
    /\ cancelled' = FALSE
    /\ op' = "buildMove"
    /\ UNCHANGED <<mapperVars, plannerVars, explorerVars, lidarVars, robotVars,
                   interactionMode, autoExploreActive, frontierTarget, frontierCooldown,
                   customWalls, lastSearch>>

\* mouseup / mouseleave on the realWorldCanvas
DoCommitWall ==
    /\ calls < MaxEdits
    /\ calls' = calls + 1
    /\ \E r \in { CommitWall(build, customWalls, grid) } :
         /\ customWalls' = r.customWalls
         /\ grid' = r.grid
         /\ op' = IF r.committed THEN "commitWall" ELSE "commitNothing"
    /\ build' = NotBuilding
    /\ hadKnown' = (KnownCells(grid) # {})
    /\ cancelled' = FALSE
    /\ UNCHANGED <<refused, plannerVars, explorerVars, lidarVars, robotVars,
                   interactionMode, autoExploreActive, frontierTarget, frontierCooldown,
                   lastSearch>>

\* resetSimulation(), after the walls were set to base and custom
ResetSimulation(base, custom) ==
    /\ walls' = base
    /\ customWalls' = custom
    /\ grid' = Clear(grid)
    /\ bot' = ResetRobot(bot, NewRobot(75, 100).x, NewRobot(75, 100).y)
    /\ frontierTarget' = NoTarget
    /\ autoExploreActive' = FALSE
    /\ hadKnown' = (KnownCells(grid) # {})
    /\ cancelled' = FALSE
    /\ UNCHANGED <<refused, plannerVars, explorerVars, lidarVars, hitWall, keys, pathWasSet,
                   interactionMode, frontierCooldown, build, lastSearch>>

\* btnReset: generateRandomMap and resetSimulation
ClickReset ==
    /\ calls < MaxEdits
    /\ calls' = calls + 1
    /\ \E base \in RandomMaps : ResetSimulation(base, customWalls)
    /\ op' = "reset"

\* btnClearCustom: clearCustomWalls and mapper.clear
ClickClearCustom ==
    /\ calls < MaxEdits
    /\ calls' = calls + 1
    /\ customWalls' = {}
    /\ grid' = Clear(grid)
    /\ hadKnown' = (KnownCells(grid) # {})
    /\ cancelled' = FALSE
    /\ op' = "clearCustom"
    /\ UNCHANGED <<refused, plannerVars, explorerVars, lidarVars, robotVars,
                   interactionMode, autoExploreActive, frontierTarget, frontierCooldown,
                   build, lastSearch>>

\* presetSelect change: generateRandomMap or loadPreset, and resetSimulation
ChangePreset ==
    /\ calls < MaxEdits
    /\ calls' = calls + 1
    /\ \E name \in Presets :
         IF name = "random"
         THEN \E base \in RandomMaps : ResetSimulation(base, customWalls)
         ELSE ResetSimulation(PresetWalls(name), {})
    /\ op' = "preset"

\* The FileReader's onload of the import: importWalls and, if it succeeded,
\* resetSimulation
ImportMap ==
    /\ calls < MaxEdits
    /\ calls' = calls + 1
    /\ \E data \in ImportData : \E r \in { ImportWalls(walls, customWalls, data) } :
           IF r.ok
           THEN /\ ResetSimulation(r.baseWalls, r.customWalls)
                /\ op' = "import"
           ELSE /\ op' = "importFailed"
                /\ cancelled' = FALSE
                /\ UNCHANGED <<mapperVars, plannerVars, explorerVars, lidarVars, robotVars,
                               interactionMode, autoExploreActive, frontierTarget,
                               frontierCooldown, build, customWalls, lastSearch>>

\* Exploration: the frame loop and the commands that start, steer and cancel
\* autonomous driving.
NextExplore ==
    \/ Tick
    \/ DoKeyDown
    \/ DoKeyUp
    \/ ClickDriveMode
    \/ ClickBuildMode
    \/ ClickAutoExplore
    \/ SlamMouseDown

SpecExplore == InitApp /\ [][NextExplore]_vars

\* The frontier explorer of the larger mapper: a belief grid of a room, a robot
\* position, and one call of findBestFrontier.
InitRoom ==
    /\ grid \in RoomGrids
    /\ robot \in ExplorerPoints
    /\ goal = [x |-> 5, y |-> 15]
    /\ op = "room"
    /\ calls = 0
    /\ refused = FALSE
    /\ hadKnown = FALSE
    /\ path = << >>
    /\ pops = 0
    /\ target = NoTarget
    /\ RobotAtRest
    /\ LidarAtRest
    /\ AppAtRest
    /\ ExplorerAtRest

DoFindBestFrontierOn ==
    /\ op = "room"
    /\ target' = FindBestFrontierOn(grid, RoomCols, RoomRows, robot.x, robot.y)
    /\ op' = "findBestFrontierOn"
    /\ UNCHANGED <<grid, calls, refused, hadKnown, robot, goal, path, pops, robotVars, lidarVars,
                   appVars, explorerVars>>

NextRoom == DoFindBestFrontierOn

SpecRoom == InitRoom /\ [][NextRoom]_vars

\* A session: exploration with its commands, and the reset button among them.
ResetWhileExploring == calls < MaxCommands /\ ClickReset

NextSession == NextExplore \/ ResetWhileExploring

SpecSession == InitApp /\ [][NextSession]_vars

\* Wall editing: the frame loop and the commands that change the walls.
NextWalls ==
    \/ Tick
    \/ ClickDriveMode
    \/ ClickBuildMode
    \/ BuildMouseDown
    \/ BuildMouseMove
    \/ DoCommitWall
    \/ ClickReset
    \/ ClickClearCustom
    \/ ChangePreset
    \/ ImportMap

SpecWalls == InitApp /\ [][NextWalls]_vars

\* findBestFrontier in its steps: _detectFrontiers on a belief grid,
\* _clusterFrontiers on the cells it returned (or on a list it returns on a
\* larger grid), and the scoring loop over the clusters.
InitCluster ==
    /\ \/ /\ grid \in FrontierGrids
          /\ frontierCells = << >>
          /\ op = "explore"
       \/ /\ grid = EmptyGrid
          /\ frontierCells \in ClusterInputs
          /\ op = "frontiers"
    /\ clusters = << >>
    /\ robot \in ScorePoints
    /\ goal = [x |-> 5, y |-> 15]
    /\ calls = 0
    /\ refused = FALSE
    /\ hadKnown = FALSE
    /\ path = << >>
    /\ pops = 0
    /\ target = NoTarget
    /\ RobotAtRest
    /\ LidarAtRest
    /\ AppAtRest

DoDetectFrontiers ==
    /\ op = "explore"
    /\ frontierCells' = DetectFrontiers(grid, Cols, Rows)
    /\ op' = "detectFrontiers"
    /\ UNCHANGED <<clusters, mapperVars, calls, plannerVars, robotVars, lidarVars, appVars>>

DoClusterFrontiers ==
    /\ op \in {"detectFrontiers", "frontiers"}
    /\ clusters' = ClusterFrontiers(frontierCells)
    /\ op' = "clusterFrontiers"
    /\ UNCHANGED <<frontierCells, mapperVars, calls, plannerVars, robotVars, lidarVars, appVars>>

DoScoreClusters ==
    /\ op = "clusterFrontiers"
    /\ target' = BestTarget(clusters, robot.x, robot.y)
    /\ op' = "scoreClusters"
    /\ UNCHANGED <<explorerVars, mapperVars, calls, robot, goal, path, pops,
                   robotVars, lidarVars, appVars>>

NextCluster == DoDetectFrontiers \/ DoClusterFrontiers \/ DoScoreClusters

SpecCluster == InitCluster /\ [][NextCluster]_vars



\* ------------------------------------------------- routes on the belief grid
\* The vocabulary of the planner claims, stated on cells <<col, row>> of the
\* current grid and independent of the planner's own bookkeeping.
Cells == (0 .. (Cols - 1)) \X (0 .. (Rows - 1))
CellAt(p) == << p.x \div CellSize, p.y \div CellSize >>
Centre(c) == [x |-> c[1] * CellSize + CellSize \div 2, y |-> c[2] * CellSize + CellSize \div 2]
StartCell == CellAt(robot)
GoalCell == CellAt(goal)
InGrid(c) == c \in Cells
IsOccupied(c) == InGrid(c) /\ grid[c[1] + c[2] * Cols] = OCCUPIED
Chebyshev(a, b) == Max(Abs(a[1] - b[1]), Abs(a[2] - b[2]))
IsDiagonal(a, b) == Abs(a[1] - b[1]) = 1 /\ Abs(a[2] - b[2]) = 1
CutsCorner(a, b) == IsDiagonal(a, b) /\ (IsOccupied(<<b[1], a[2]>>) \/ IsOccupied(<<a[1], b[2]>>))

\* A legal move from cell a to cell b.
LegalMove(a, b) ==
    /\ InGrid(b)
    /\ ~IsOccupied(b)
    /\ Chebyshev(a, b) = 1
    /\ ~CutsCorner(a, b)

\* The cost a + b*sqrt(2) of entering b from a, as [a, b].
EnterCost(a, b) ==
    [a |-> (IF IsDiagonal(a, b) THEN 0 ELSE 1)
           + 5 * Cardinality({ w \in Cells : IsOccupied(w) /\ Chebyshev(w, b) <= 2 }),
     b |-> IF IsDiagonal(a, b) THEN 1 ELSE 0]

NoCost == [a |-> -1, b |-> 0]
CostLess(x, y) == x # NoCost /\ (y = NoCost \/ Sgn2(x.a - y.a, x.b - y.b) < 0)
CostPlus(x, y) == [a |-> x.a + y.a, b |-> x.b + y.b]
Cheapest(S) == CHOOSE x \in S : \A y \in S : ~CostLess(y, x)

\* The cells of the returned path and the cost of walking it.
PathCells == [k \in DOMAIN path |-> CellAt(path[k])]

RECURSIVE CostFrom(_)
CostFrom(k) ==
    IF k >= Len(path) THEN [a |-> 0, b |-> 0]
    ELSE CostPlus(EnterCost(PathCells[k], PathCells[k + 1]), CostFrom(k + 1))

PathCost == CostFrom(1)
DiagonalSteps == { k \in 1 .. (Len(path) - 1) : IsDiagonal(PathCells[k], PathCells[k + 1]) }

\* The cells that legal moves reach from the start cell.
GrowReach(R) == R \cup { b \in Cells : \E a \in R : LegalMove(a, b) }

RECURSIVE ReachFrom(_, _)
ReachFrom(R, R2) == IF R2 = R THEN R ELSE ReachFrom(R2, GrowReach(R2))

Reach == ReachFrom({StartCell}, GrowReach({StartCell}))

\* The cheapest cost of a legal route from the start cell to every cell
\* (Bellman-Ford; NoCost where there is no route).
RouteNodes == Cells \cup {StartCell}

Around(v) == { u \in RouteNodes : Chebyshev(u, v) = 1 }

Relaxed(d, v) ==
    Cheapest({d[v]} \cup { CostPlus(d[u], EnterCost(u, v)) :
                             u \in { w \in Around(v) : d[w] # NoCost /\ LegalMove(w, v) } })

\* One round of relaxation (the EXCEPT makes the function a table).
Round(d) == [[v \in RouteNodes |-> Relaxed(d, v)] EXCEPT ![StartCell] = @]

RECURSIVE BellmanFord(_, _)
BellmanFord(d, d2) == IF d2 = d THEN d ELSE BellmanFord(d2, Round(d2))

StartCosts ==
    [[v \in RouteNodes |-> IF v = StartCell THEN [a |-> 0, b |-> 0] ELSE NoCost]
        EXCEPT ![StartCell] = @]

CheapestRoutes == BellmanFord(StartCosts, Round(StartCosts))

\* ================================================================ claims

\* C1: belief monotonicity. In every step, a cell that is OCCUPIED stays
\* OCCUPIED, whatever pose and scan updateMap is given (free-space rays through
\* the cell included); only Mapper.clear changes it.
C1_OccupiedIsSticky ==
    [][\A i \in Indices :
          grid[i] = OCCUPIED => (grid'[i] = OCCUPIED \/ op' = "clear")]_vars

\* An updateMap whose free-space ray passed through an OCCUPIED cell.
C1_Witness == op = "updateMap" /\ refused /\ \E i \in Indices : grid[i] = OCCUPIED

\* C2: updateMap never writes UNKNOWN (a known cell stays known, so the set of
\* known cells only grows); clear sets every cell UNKNOWN and is the only
\* operation after which a known cell is UNKNOWN.
C2_UnknownOnlyByClear ==
    [][/\ op' = "clear" => \A i \in Indices : grid'[i] = UNKNOWN
       /\ op' # "clear" => KnownCells(grid) \subseteq KnownCells(grid')]_vars

\* A clear of a grid that held known cells.
C2_Witness == op = "clear" /\ hadKnown /\ KnownCells(grid) = {}

\* C3: findPath returns the empty sequence whenever the goal cell is outside
\* the grid or OCCUPIED, for every start point and every grid content.
C3_BadGoalGivesNoPath ==
    (op = "findPath" /\ (~InGrid(GoalCell) \/ IsOccupied(GoalCell))) => path = << >>

\* A call from a cell inside the grid to an OCCUPIED goal.
C3_Witness ==
    op = "findPath" /\ IsOccupied(GoalCell) /\ InGrid(StartCell) /\ path = << >>

\* C4: every non-empty path returned by findPath is a valid route: each
\* waypoint is the centre of a cell inside the grid, every waypoint cell other
\* than the start cell is not OCCUPIED, consecutive waypoints are centres of
\* 8-neighbouring cells, and the last waypoint is the centre of the goal cell.
C4_PathIsValidRoute ==
    (op = "findPath" /\ path # << >>) =>
        /\ \A k \in DOMAIN path : InGrid(PathCells[k]) /\ path[k] = Centre(PathCells[k])
        /\ \A k \in DOMAIN path : PathCells[k] # StartCell => ~IsOccupied(PathCells[k])
        /\ \A k \in 1 .. (Len(path) - 1) : Chebyshev(PathCells[k], PathCells[k + 1]) = 1
        /\ path[Len(path)] = Centre(GoalCell)

\* C5: no returned path cuts a wall corner: for every diagonal step of the
\* path, neither of the two orthogonal corner cells is OCCUPIED.
C5_NoCornerCut ==
    op = "findPath" =>
        \A k \in 1 .. (Len(path) - 1) : ~CutsCorner(PathCells[k], PathCells[k + 1])

\* The goal is a diagonal neighbour of the start behind an OCCUPIED corner, and
\* the path goes round it.
C5_Witness ==
    /\ op = "findPath"
    /\ InGrid(StartCell)
    /\ CutsCorner(StartCell, GoalCell)
    /\ Len(path) > 2

\* C6: the returned route has the minimum total cost among all legal routes
\* from the start cell to the goal cell, where entering a cell costs 1 or
\* sqrt(2) plus 5 times the number of OCCUPIED cells within Chebyshev distance
\* 2 of it.
C6_LowestCost ==
    (op = "findPath" /\ path # << >>) => PathCost = CheapestRoutes[GoalCell]

\* C7: on a grid with no OCCUPIED cell, for start and goal cells inside the
\* grid, the path makes exactly max(|dc|, |dr|) steps, of which min(|dc|, |dr|)
\* are diagonal.
C7_GridDistance ==
    (op = "findPath" /\ ~HasWall(grid) /\ InGrid(StartCell) /\ InGrid(GoalCell)) =>
        /\ path # << >>
        /\ Len(path) - 1 = Chebyshev(StartCell, GoalCell)
        /\ Cardinality(DiagonalSteps) =
             Min(Abs(StartCell[1] - GoalCell[1]), Abs(StartCell[2] - GoalCell[2]))

\* A path over an empty grid that needs both kinds of step.
C7_Witness ==
    /\ op = "findPath"
    /\ ~HasWall(grid)
    /\ InGrid(StartCell)
    /\ Abs(StartCell[1] - GoalCell[1]) = 3
    /\ Abs(StartCell[2] - GoalCell[2]) = 1
    /\ Len(path) = 4

\* C8: findPath terminates and is complete: from a start cell inside the grid
\* (FREE, UNKNOWN or OCCUPIED) it returns a non-empty path exactly when legal
\* moves lead from the start cell to the goal cell, the goal being a cell a
\* legal move may end in (inside the grid, not OCCUPIED); otherwise the open
\* set runs empty, after at most one expansion per cell.
C8_Complete ==
    (op = "findPath" /\ InGrid(StartCell)) =>
        /\ path # << >> <=> (InGrid(GoalCell) /\ ~IsOccupied(GoalCell) /\ GoalCell \in Reach)
        /\ pops <= NumNodes

\* A goal that may be entered but is walled off: the open set ran empty.
C8_Witness ==
    /\ op = "findPath"
    /\ InGrid(StartCell)
    /\ InGrid(GoalCell)
    /\ ~IsOccupied(GoalCell)
    /\ GoalCell \notin Reach
    /\ path = << >>
    /\ pops > 0

\* C9, as claimed: the first waypoint is the centre of a cell adjacent to the
\* start cell (the start cell itself is not a waypoint) and the last waypoint
\* is the centre of the goal cell.
C9_StartsNextToStart ==
    (op = "findPath" /\ path # << >>) =>
        /\ Chebyshev(PathCells[1], StartCell) = 1
        /\ path[1] = Centre(PathCells[1])
        /\ \A k \in DOMAIN path : path[k] # Centre(StartCell)
        /\ path[Len(path)] = Centre(GoalCell)

\* C9, amended: the waypoints run from the start cell to the goal: the first
\* waypoint is the centre of the start cell itself, the second (if any) is the
\* centre of a cell adjacent to the start cell, and the last is the centre of
\* the goal cell.
C9_StartsAtStart ==
    (op = "findPath" /\ path # << >>) =>
        /\ path[1] = Centre(StartCell)
        /\ Len(path) > 1 => (Chebyshev(PathCells[2], StartCell) = 1 /\ path[2] = Centre(PathCells[2]))
        /\ path[Len(path)] = Centre(GoalCell)

\* A path of several waypoints.
C9_Witness == op = "findPath" /\ Len(path) > 2 /\ path[1] = Centre(StartCell)

\* C10: on a grid in which no FREE cell is 4-adjacent to an UNKNOWN cell,
\* findBestFrontier returns none, for every robot position.
C10_NoFrontierNoTarget ==
    (op = "findBestFrontier"
       /\ \A a, b \in Cells :
            (Abs(a[1] - b[1]) + Abs(a[2] - b[2]) = 1 /\ grid[a[1] + a[2] * Cols] = FREE)
              => grid[b[1] + b[2] * Cols] # UNKNOWN)
    => target = NoTarget

\* A grid that holds FREE and UNKNOWN cells, kept apart by OCCUPIED ones.
C10_Witness ==
    /\ op = "findBestFrontier"
    /\ \E i \in Indices : grid[i] = FREE
    /\ \E i \in Indices : grid[i] = UNKNOWN
    /\ \A a, b \in Cells :
         (Abs(a[1] - b[1]) + Abs(a[2] - b[2]) = 1 /\ grid[a[1] + a[2] * Cols] = FREE)
           => grid[b[1] + b[2] * Cols] # UNKNOWN
    /\ target = NoTarget

\* C11: findBestFrontier returns none only when the map is fully explored:
\* whenever some FREE cell of the grid is 4-adjacent to an UNKNOWN cell, it
\* returns a target point.
C11_FrontierGivesTarget ==
    (op = "findBestFrontier"
       /\ \E a, b \in Cells :
            /\ Abs(a[1] - b[1]) + Abs(a[2] - b[2]) = 1
            /\ grid[a[1] + a[2] * Cols] = FREE
            /\ grid[b[1] + b[2] * Cols] = UNKNOWN)
    => target # NoTarget

\* C12: drift-off identity.  While driftAmount is 0, after every Robot.update
\* (manual, autonomous or idle, with or without a collision, also when drift
\* was nonzero in earlier ticks) the believed pose equals the true pose.
C12_DriftOffIdentity ==
    (op = "update" /\ bot.driftAmount = 0)
    => /\ bot.believedX = bot.x
       /\ bot.believedY = bot.y
       /\ bot.believedTheta = bot.theta

\* An update with drift off that turned the robot while a wall froze it.
C12_Witness ==
    /\ op = "update"
    /\ bot.driftAmount = 0
    /\ hitWall
    /\ bot.turnSpeed # 0
    /\ bot.theta # 15500

\* The point (px, py) is closer than r to the segment w: closer than r to an
\* end point, or its foot falls inside the segment and its distance to the
\* line, |cross| / |w|, is below r.
NearWall(px, py, r, w) ==
    LET dx == w.end.x - w.start.x
        dy == w.end.y - w.start.y
        ax == px - w.start.x
        ay == py - w.start.y
        bx == px - w.end.x
        by == py - w.end.y
    IN  \/ ax * ax + ay * ay < r * r
        \/ bx * bx + by * by < r * r
        \/ /\ ax * dx + ay * dy > 0
           /\ bx * dx + by * dy < 0
           /\ MulLess(Abs(ax * dy - ay * dx), Abs(ax * dy - ay * dx), r * r, dx * dx + dy * dy)

\* The position an update proposes: one step of the speed it applies along the
\* heading it has turned to.
ProposedX == bot.x + Trunc(Cos(bot'.theta) * bot'.forwardSpeed, TrigScale)
ProposedY == bot.y + Trunc(Sin(bot'.theta) * bot'.forwardSpeed, TrigScale)

\* C13: collision freeze.  In Robot.update, if the bounding circle at the
\* proposed next position is closer than the radius to some wall segment, x and
\* y are unchanged, theta is still advanced by turnSpeed and update returns
\* true; if no wall is that close, the position becomes the proposed position
\* and update returns false.
C13_CollisionFreeze ==
    [][ op' = "update" =>
          /\ bot'.theta = bot.theta + bot'.turnSpeed
          /\ IF \E w \in walls : NearWall(ProposedX, ProposedY, bot.radius, w)
             THEN bot'.x = bot.x /\ bot'.y = bot.y /\ hitWall' = TRUE
             ELSE bot'.x = ProposedX /\ bot'.y = ProposedY /\ hitWall' = FALSE ]_vars

\* An update that a wall froze while the robot was driving and turning, and one
\* step earlier a free move: the robot is no longer where it started.
C13_Witness ==
    /\ op = "update"
    /\ hitWall
    /\ bot.forwardSpeed # 0
    /\ bot.turnSpeed # 0
    /\ bot.hasPath = FALSE
    /\ bot.x # 75 * PosScale

\* Twice the signed area of the triangle a, b, c.
Orient(ax, ay, bx, by, cx, cy) == (bx - ax) * (cy - ay) - (by - ay) * (cx - ax)

\* The move from (px, py) to (qx, qy) crosses the wall segment w: each segment
\* has the other's end points strictly on opposite sides.
CrossesWall(px, py, qx, qy, w) ==
    /\ Sign(Orient(px, py, qx, qy, w.start.x, w.start.y))
         * Sign(Orient(px, py, qx, qy, w.end.x, w.end.y)) < 0
    /\ Sign(Orient(w.start.x, w.start.y, w.end.x, w.end.y, px, py))
         * Sign(Orient(w.start.x, w.start.y, w.end.x, w.end.y, qx, qy)) < 0

\* C14: the robot cannot pass through walls.  With a fixed wall set and any
\* configured speed multiplier, starting where the bounding circle intersects
\* no wall, the bounding circle intersects no wall after any Robot.update and
\* the straight move made in a tick never crosses a wall segment.
C14_NoPassThroughWalls ==
    [][ op' = "update" =>
          \A w \in walls :
              /\ ~NearWall(bot'.x, bot'.y, bot'.radius, w)
              /\ ~CrossesWall(bot.x, bot.y, bot'.x, bot'.y, w) ]_vars

\* The speeds the held keys ask for: s over w, d over a.
KeyForward(ks, b) == IF "s" \in ks THEN -b.maxSpeed ELSE IF "w" \in ks THEN b.maxSpeed ELSE 0
KeyTurn(ks, b) == IF "d" \in ks THEN b.maxTurn ELSE IF "a" \in ks THEN -b.maxTurn ELSE 0

\* C15: manual input preempts autonomous driving.  After Robot.applyInput(keys)
\* with at least one of w, a, s, d held, path is null and forwardSpeed and
\* turnSpeed are determined by the keys alone, so the following Robot.update
\* does not steer autonomously (it keeps the speeds and turns by the keys'
\* turnSpeed), whatever path was active.
C15_ManualPreempts ==
    [][ /\ (op' = "applyInput" /\ keys' # {}) =>
              /\ ~bot'.hasPath
              /\ bot'.forwardSpeed = KeyForward(keys', bot)
              /\ bot'.turnSpeed = KeyTurn(keys', bot)
        /\ (op = "applyInput" /\ keys # {} /\ op' = "update") =>
              /\ ~bot'.hasPath
              /\ bot'.forwardSpeed = bot.forwardSpeed
              /\ bot'.turnSpeed = bot.turnSpeed
              /\ bot'.theta = bot.theta + KeyTurn(keys, bot) ]_vars

\* The update that follows a manual input which arrived while a path was set.
C15_Witness ==
    /\ op = "update"
    /\ keys # {}
    /\ pathWasSet
    /\ ~bot.hasPath
    /\ bot.forwardSpeed # 0

\* The robot is within the arrival radius (15 units) of the waypoint p.
WithinArrival(b, p) ==
    (p.x - b.x) * (p.x - b.x) + (p.y - b.y) * (p.y - b.y)
    < (ArrivalRadius * PosScale) * (ArrivalRadius * PosScale)

\* No path and no speed.
Stopped(b) == ~b.hasPath /\ b.forwardSpeed = 0 /\ b.turnSpeed = 0

SamePose(b, c) == b.x = c.x /\ b.y = c.y /\ b.theta = c.theta

\* Once stopped, the true pose stays as it is in every later call other than a
\* manual input or a new setPath.
StaysStopped ==
    (Stopped(bot) /\ op' # "setPath" /\ ~(op' = "applyInput" /\ keys' # {}))
    => (Stopped(bot') /\ SamePose(bot', bot))

\* C16 (as stated): terminal state of path following.  In the tick in which the
\* robot is within 15 units of the last waypoint of its path, Robot.update sets
\* path to null and forwardSpeed and turnSpeed to 0 before integrating, so the
\* true pose does not change in that tick and, absent manual input or a new
\* setPath, in no later tick.
C16_StopsNearLastWaypoint ==
    [][ /\ (op' = "update" /\ bot.hasPath /\ bot.path # << >>
              /\ WithinArrival(bot, bot.path[Len(bot.path)]))
           => (Stopped(bot') /\ SamePose(bot', bot))
        /\ StaysStopped ]_vars

\* C16 (amended): the same, in the tick in which the waypoint the robot is
\* heading for is the last one of its path and the robot is within 15 units
\* of it.
C16_StopsAtLastWaypoint ==
    [][ /\ (op' = "update" /\ bot.hasPath /\ bot.pathIndex = Len(bot.path) - 1
              /\ WithinArrival(bot, bot.path[Len(bot.path)]))
           => (Stopped(bot') /\ SamePose(bot', bot))
        /\ StaysStopped ]_vars

\* The robot stopped at the end of the two-waypoint path, after a tick in which
\* it turned towards the first waypoint.
C16_Witness ==
    /\ op = "update"
    /\ Stopped(bot)
    /\ bot.pathIndex = 2
    /\ bot.theta # 0

\* C17: sensor miss distance.  With an empty wall set, Lidar.scan returns
\* exactly numRays results, every one with hit = false and distance equal to
\* maxRange, for every noisePercent: noise is never applied to a miss.
C17_MissAtMaxRange ==
    (op = "scan" /\ walls = {})
    => /\ Len(scan) = lidar.numRays
       /\ \A i \in 1 .. Len(scan) :
              /\ scan[i].hit = FALSE
              /\ scan[i].distance = [n |-> lidar.maxRange, d |-> 1]

\* A scan of several rays with noise switched on and no wall around.
C17_Witness ==
    /\ op = "scan"
    /\ walls = {}
    /\ lidar.noisePercent > 0
    /\ lidar.numRays > 1
    /\ Len(scan) > 1

\* Where the wall w meets the ray segment p1 -> p2, as the set of the positions
\* (fractions of the ray's length) of the nearest common point: empty if they
\* have no point in common.  A wall across the ray meets it where the signed
\* areas on the two sides of the wall balance; a wall lying along the ray
\* meets it from the nearer end of their overlap on.
Along(p1, p2, q) ==
    Frac((q.x - p1.x) * (p2.x - p1.x) + (q.y - p1.y) * (p2.y - p1.y),
         (p2.x - p1.x) * (p2.x - p1.x) + (p2.y - p1.y) * (p2.y - p1.y))

MeetsRay(p1, p2, w) ==
    LET o1 == Orient(w.start.x, w.start.y, w.end.x, w.end.y, p1.x, p1.y)
        o2 == Orient(w.start.x, w.start.y, w.end.x, w.end.y, p2.x, p2.y)
        o3 == Orient(p1.x, p1.y, p2.x, p2.y, w.start.x, w.start.y)
        o4 == Orient(p1.x, p1.y, p2.x, p2.y, w.end.x, w.end.y)
        s1 == Along(p1, p2, w.start)
        s2 == Along(p1, p2, w.end)
    IN  IF o1 # o2
        THEN IF Sign(o1) * Sign(o2) <= 0 /\ Sign(o3) * Sign(o4) <= 0
             THEN { Frac(o1, o1 - o2) } ELSE {}
        ELSE IF o1 # 0 \/ o3 # 0 \/ o4 # 0 THEN {}
        ELSE IF s1.n < 0 /\ s2.n < 0 THEN {}
        ELSE IF s1.n <= 0 \/ s2.n <= 0 THEN { Frac(0, 1) }
        ELSE IF FracBelow(s1, s2) THEN { t \in {s1} : t.n <= t.d }
        ELSE { t \in {s2} : t.n <= t.d }

\* The walls' meeting positions along ray i of the current scan
MeetingsOf(i, ws) ==
    UNION { MeetsRay(robot, RayEnd(robot, RayAngle(lidar, robot, i - 1), lidar.maxRange), w) :
              w \in ws }

\* Ray i reports the closest of the meetings ts, if one is below maxRange.
ReportsClosest(i, ts) ==
    (ts # {} /\ FracBelow(Closest(ts), Frac(1, 1)))
    => /\ scan[i].hit
       /\ scan[i].distance = Frac(Closest(ts).n * lidar.maxRange, Closest(ts).d)

\* The scenario: one wall from (300,100) to (300,500), the robot at (100,300)
\* facing 0: ray 0 reports a hit at (300,300), distance 200.
ScenarioHit ==
    (robot = [x |-> 100, y |-> 300, theta |-> 0] /\ walls = { Segment(300, 100, 300, 500) })
    => /\ scan[1].hit
       /\ scan[1].x = Frac(300, 1)
       /\ scan[1].y = Frac(300, 1)
       /\ scan[1].distance = Frac(200, 1)

\* C18: with zero noise, Lidar.scan reports for each ray the closest wall
\* intersection: hit = true with distance equal to the minimum, over all walls,
\* of the distance from the robot to the intersection of the ray segment with
\* that wall, whenever that minimum is below maxRange; in the scenario ray 0
\* reports a hit at (300,300) with distance 200.
C18_ClosestIntersection ==
    (op = "scan" /\ lidar.noisePercent = 0)
    => /\ \A i \in 1 .. Len(scan) : ReportsClosest(i, MeetingsOf(i, walls))
       /\ ScenarioHit

\* The index of the grid cell that contains the point (x, y), for points on the
\* grid.
OnGrid(x, y) ==
    /\ x \div CellSize >= 0 /\ x \div CellSize < Cols
    /\ y \div CellSize >= 0 /\ y \div CellSize < Rows
CellIndex(x, y) == x \div CellSize + (y \div CellSize) * Cols

\* C20: Mapper.updateMap turns a cell OCCUPIED only if that cell contains the
\* reported hit point of some ray of the scan with hit = true and distance
\* strictly greater than robot.radius; misses and hits at distance <= radius
\* never create an OCCUPIED cell.
C20_OccupiedOnlyByHit ==
    [][ \A i \in Indices :
          (grid[i] # OCCUPIED /\ grid'[i] = OCCUPIED)
          => /\ op' = "updateMap"
             /\ \E k \in 1 .. Len(scan) :
                    /\ scan[k].hit
                    /\ scan[k].distance > robot.radius
                    /\ OnGrid(scan[k].x, scan[k].y)
                    /\ CellIndex(scan[k].x, scan[k].y) = i ]_vars

\* A scan with a wall hit beyond the radius, which made its cell OCCUPIED, and a
\* second reading on the grid that made none: a miss or a hit at the radius.
C20_Witness ==
    /\ op = "updateMap"
    /\ \E k \in 1 .. Len(scan) :
           /\ scan[k].hit /\ scan[k].distance > robot.radius
           /\ OnGrid(scan[k].x, scan[k].y)
           /\ grid[CellIndex(scan[k].x, scan[k].y)] = OCCUPIED
    /\ \E k \in 1 .. Len(scan) :
           /\ scan[k].hit /\ scan[k].distance <= robot.radius
           /\ OnGrid(scan[k].x, scan[k].y)
           /\ grid[CellIndex(scan[k].x, scan[k].y)] # OCCUPIED

\* The cell <<col, row>> that contains the reported point of a reading, and the
\* cells that contain the points robot + i * (dx, dy) / steps which updateMap
\* samples along the ray, steps = max(|dx|, |dy|) / (cellSize / 2): all i <
\* steps for a miss, all i <= steps - 2 for a hit.
HitCell(h) == << h.x \div CellSize, h.y \div CellSize >>

Major(rob, h) == Max(Abs(h.x - rob.x), Abs(h.y - rob.y))

SampledCells(rob, h) ==
    { << (2 * Major(rob, h) * rob.x + i * (h.x - rob.x) * CellSize)
            \div (2 * Major(rob, h) * CellSize),
         (2 * Major(rob, h) * rob.y + i * (h.y - rob.y) * CellSize)
            \div (2 * Major(rob, h) * CellSize) >> :
        i \in { j \in 0 .. ((2 * Major(rob, h)) \div CellSize) :
                  IF h.hit THEN j * CellSize <= 2 * Major(rob, h) - 2 * CellSize
                  ELSE j * CellSize < 2 * Major(rob, h) } }

\* The ray from the robot to the reported point crosses the cell c: it runs
\* through the inside of the cell's square.  On one axis, a ray from p with
\* displacement d is inside (l, r) between the positions lo / k and hi / k.
AxisLo(p, d, l, r, k) ==
    IF d > 0 THEN (l - p) * (k \div d) ELSE IF d < 0 THEN (p - r) * (k \div (-d)) ELSE -1
AxisHi(p, d, l, r, k) ==
    IF d > 0 THEN (r - p) * (k \div d) ELSE IF d < 0 THEN (p - l) * (k \div (-d)) ELSE k + 1

CrossesCell(c, rob, h) ==
    LET dx == h.x - rob.x
        dy == h.y - rob.y
        k == Max(Abs(dx), 1) * Max(Abs(dy), 1)
        xl == c[1] * CellSize
        yl == c[2] * CellSize
    IN  /\ dx = 0 => (xl < rob.x /\ rob.x < xl + CellSize)
        /\ dy = 0 => (yl < rob.y /\ rob.y < yl + CellSize)
        /\ Max(Max(AxisLo(rob.x, dx, xl, xl + CellSize, k),
                   AxisLo(rob.y, dy, yl, yl + CellSize, k)), 0)
             < Min(Min(AxisHi(rob.x, dx, xl, xl + CellSize, k),
                       AxisHi(rob.y, dy, yl, yl + CellSize, k)), k)

\* The wall hits of the current scan that are beyond the robot's radius
WallReadings == { k \in 1 .. Len(scan) : scan[k].hit /\ scan[k].distance > robot.radius }

\* The scenario, on a grid of 100 x 80 cells: robot at (100,300), hit at
\* (300,300), distance 200.  The sampled cells are (10..29, 30) and the hit
\* cell is (30, 30).
ScenarioRobot == [x |-> 100, y |-> 300, radius |-> Radius]
ScenarioReading == [x |-> 300, y |-> 300, distance |-> 200, angle |-> East, hit |-> TRUE]
ScenarioCells ==
    /\ ScenarioReading.distance > ScenarioRobot.radius
    /\ SampledCells(ScenarioRobot, ScenarioReading) = { <<c, 30>> : c \in 10 .. 29 }
    /\ HitCell(ScenarioReading) = <<30, 30>>

\* C19 (as stated): for a hit at distance greater than the robot radius,
\* updateMap on a cleared grid marks every cell the ray crosses before the hit
\* cell as FREE and the cell containing the hit point as OCCUPIED; in the
\* scenario cells (10..29, 30) become FREE and cell (30, 30) OCCUPIED.
C19_FreeAlongRay ==
    [][ (op' = "updateMap" /\ grid = EmptyGrid) =>
          /\ \A k \in WallReadings : \A c \in Cells :
                 /\ c = HitCell(scan[k]) => grid'[c[1] + c[2] * Cols] = OCCUPIED
                 /\ (CrossesCell(c, robot, scan[k])
                       /\ \A j \in WallReadings : c # HitCell(scan[j]))
                    => grid'[c[1] + c[2] * Cols] = FREE
          /\ ScenarioCells ]_vars

\* C19 (amended): on a cleared grid, updateMap marks OCCUPIED exactly the
\* cells that contain the hit point of a hit at distance greater than the
\* robot radius, and FREE exactly the other cells that contain one of the
\* points it samples along a ray, every half cell size along the ray's longer
\* axis and, for a hit, no further than two steps before the hit point; each of
\* these lies on the ray.  A cell that the ray crosses between two samples or
\* within the last two steps before the hit can stay UNKNOWN.  In the scenario
\* cells (10..29, 30) become FREE and cell (30, 30) OCCUPIED.
C19_FreeAlongSamples ==
    [][ (op' = "updateMap" /\ grid = EmptyGrid) =>
          /\ \A c \in Cells :
                 /\ grid'[c[1] + c[2] * Cols] = OCCUPIED
                      <=> \E k \in WallReadings : c = HitCell(scan[k])
                 /\ grid'[c[1] + c[2] * Cols] = FREE
                      <=> /\ \A k \in WallReadings : c # HitCell(scan[k])
                          /\ \E k \in 1 .. Len(scan) : c \in SampledCells(robot, scan[k])
          /\ ScenarioCells ]_vars

\* A scan on a cleared grid with a hit beyond the radius whose cell became
\* OCCUPIED, cells before it FREE, and a cell the ray crosses left UNKNOWN.
C19_Witness ==
    /\ op = "updateMap"
    /\ \E k \in WallReadings :
           /\ HitCell(scan[k]) \in Cells
           /\ grid[HitCell(scan[k])[1] + HitCell(scan[k])[2] * Cols] = OCCUPIED
           /\ \E c \in Cells : grid[c[1] + c[2] * Cols] = FREE /\ c \in SampledCells(robot, scan[k])
           /\ \E c \in Cells : grid[c[1] + c[2] * Cols] = UNKNOWN /\ CrossesCell(c, robot, scan[k])

\* C21: a markCell / updateMap write whose world point maps to a column or row
\* outside the grid changes no cell: every cell that updateMap changes holds
\* one of the points written (a sampled point, or the hit point of a hit beyond
\* the radius), column for column and row for row, so a column outside the grid
\* never lands on a cell of a neighbouring row through col + row * cols.
WrittenCells(rob, h) ==
    SampledCells(rob, h)
      \cup (IF h.hit /\ h.distance > rob.radius THEN { HitCell(h) } ELSE {})

C21_OutOfBoundsIgnored ==
    [][ op' = "updateMap" =>
          \A c \in Cells :
              grid'[c[1] + c[2] * Cols] # grid[c[1] + c[2] * Cols]
              => \E k \in 1 .. Len(scan) : c \in WrittenCells(robot, scan[k]) ]_vars

\* A scan wrote to a point whose column is right of the grid and whose flat
\* index col + row * cols is the index of a cell of the next row; that cell is
\* still UNKNOWN, and the same scan marked a cell on the grid.
C21_Witness ==
    /\ op = "updateMap"
    /\ \E k \in 1 .. Len(scan) : \E w \in WrittenCells(robot, scan[k]) :
           /\ w[1] >= Cols /\ w[2] >= 0 /\ w[2] < Rows
           /\ w[1] + w[2] * Cols \in Indices
           /\ grid[w[1] + w[2] * Cols] = UNKNOWN
    /\ \E i \in Indices : grid[i] # UNKNOWN

\* C22: AStar.findPath and FrontierExplorer.findBestFrontier never change the
\* belief grid: the grid's contents (and its size, which is the domain of
\* grid) are the same before and after the call; a cell changes only in a
\* call of Mapper.updateMap or Mapper.clear.
C22_ReadersLeaveGrid ==
    [][ /\ op' \in {"findPath", "findBestFrontier"} => grid' = grid
        /\ grid' # grid => op' \in {"updateMap", "clear"} ]_vars

\* findPath returned a path, or findBestFrontier a target, on a grid with
\* UNKNOWN, FREE and OCCUPIED cells, the grid handed in still there, ...
C22_Witness ==
    /\ \/ op = "findPath" /\ path # << >>
       \/ op = "findBestFrontier" /\ target # NoTarget
    /\ grid \in ReadGrids
    /\ \E i, j \in Indices : grid[i] = FREE /\ grid[j] = OCCUPIED

\* The frame loop's steps, and those in which it called findBestFrontier
TickOps == {"tick", "search", "retry"}
SearchOps == {"search", "retry"}

\* C23 (as stated): any two successive findBestFrontier invocations are at
\* least 30 ticks apart, also after a search whose target had no path and
\* after auto-explore was switched off and on again.
C23_ThirtyTicksApart ==
    [][ op' \in SearchOps => lastSearch.age + 1 >= Cooldown ]_vars

\* C23 (amended): two successive findBestFrontier invocations are at least 30
\* ticks apart, also after auto-explore was switched off and on again, unless
\* the earlier one found a target that had no path: then the next one comes
\* at least 15 ticks later.  findPath is called by the exploration loop only
\* in a tick in which findBestFrontier returned a target.
C23_CooldownBetweenSearches ==
    [][ op' \in SearchOps =>
          /\ lastSearch.age + 1 >= (IF lastSearch.result = "noPath" THEN RetryCooldown ELSE Cooldown)
          /\ lastSearch'.age = 0 ]_vars

\* A search that came 15 ticks after one whose target had no path
C23_Witness ==
    /\ op = "retry"
    /\ lastSearch.age = 0
    /\ frontierCooldown \in {0, RetryCooldown}

\* C24: in the tick in which findBestFrontier returns none, autoExploreActive
\* becomes false; the exploration loop calls findBestFrontier (and findPath)
\* only while autoExploreActive is true, and autoExploreActive becomes true
\* only by the auto-explore button.
C24_FullyExploredStops ==
    [][ /\ (op' \in SearchOps /\ lastSearch'.result = "none") => ~autoExploreActive'
        /\ op' \in SearchOps => autoExploreActive
        /\ (~autoExploreActive /\ autoExploreActive') => op' = "autoExplore" ]_vars

\* findBestFrontier returned none, exploration was switched off, and a whole
\* cooldown window passed without another search.
C24_Witness ==
    /\ lastSearch.result = "none"
    /\ lastSearch.age = Cooldown
    /\ ~autoExploreActive
    /\ op = "tick"

\* C25: when findPath returns the empty path, setPath is not called: after a
\* failed click on the SLAM map robot.path and robot.pathIndex are what they
\* were, and autoExploreActive and frontierTarget are unchanged; after a
\* failed search of the exploration loop, robot.path and robot.pathIndex are
\* what robot.update left in that tick.
AfterUpdate == Update(ApplyInput(bot, keys), walls \cup customWalls, <<0, 0, 0>>).bot

SamePath(b, c) == b.hasPath = c.hasPath /\ b.path = c.path /\ b.pathIndex = c.pathIndex

C25_NoPathKeepsState ==
    [][ /\ op' = "slamClickFailed" =>
              /\ SamePath(bot', bot)
              /\ autoExploreActive' = autoExploreActive
              /\ frontierTarget' = frontierTarget
        /\ (op' \in SearchOps /\ lastSearch'.result = "noPath") => SamePath(bot', AfterUpdate) ]_vars

\* A click for which findPath found no path, made while the robot was following
\* a path of the exploration loop
C25_Witness ==
    /\ op = "slamClickFailed"
    /\ PathActive(bot)
    /\ autoExploreActive
    /\ frontierTarget # NoTarget

\* C26: a command that switches auto-exploration off (a w/a/s/d keydown in
\* drive mode, the build mode button, the stop toggle) leaves autoExploreActive
\* false and frontierTarget null, and at the end of the next tick robot.path is
\* null, also when the key was released before that tick.
C26_CancelClearsPath ==
    [][ /\ cancelled' => (~autoExploreActive' /\ frontierTarget' = NoTarget)
        /\ (cancelled /\ op' \in TickOps) => ~bot'.hasPath ]_vars

\* The same for a key that is still held when the next tick comes, and for the
\* two buttons.
C26_CancelWithKeyHeld ==
    [][ (cancelled /\ op' \in TickOps /\ (keys # {} \/ ~bot.hasPath)) => ~bot'.hasPath ]_vars

\* C27: every command that changes the static walls (a committed custom wall,
\* clear custom walls, a preset, a new random map, a successful import) leaves
\* every belief cell UNKNOWN when its handler returns.
C27_WallChangeClearsBelief ==
    [][ (\/ walls' # walls
         \/ customWalls' # customWalls
         \/ op' \in {"commitWall", "clearCustom", "preset", "reset", "import"})
        => \A i \in Indices : grid'[i] = UNKNOWN ]_vars

\* A custom wall was committed on a map that had known cells
C27_Witness ==
    /\ op = "commitWall"
    /\ hadKnown
    /\ customWalls # {}
    /\ grid = EmptyGrid

\* The largest turn noise of one tick, in the model's angle unit: half of
\* driftScale * 2 with driftScale = driftAmount * 0.002.
MaxTurnNoise(b) == b.driftAmount * 20

\* C28: with nonzero drift, an update in which the collision test freezes the
\* true position leaves believedX and believedY unchanged; of the believed
\* pose only believedTheta changes, by turnSpeed plus the turn noise.
C28_CollisionFreezesBelief ==
    [][ (op' = "update" /\ hitWall' /\ bot'.driftAmount # 0) =>
          /\ bot'.x = bot.x /\ bot'.y = bot.y
          /\ bot'.believedX = bot.believedX
          /\ bot'.believedY = bot.believedY
          /\ bot'.believedTheta - bot.believedTheta - bot'.turnSpeed
                \in (0 - MaxTurnNoise(bot')) .. MaxTurnNoise(bot') ]_vars

\* A frozen update with drift on while the robot was driving, after an earlier
\* free update in which the believed position moved and the believed heading
\* left the true one.
C28_Witness ==
    /\ op = "update"
    /\ hitWall
    /\ bot.driftAmount # 0
    /\ bot.forwardSpeed # 0
    /\ bot.believedTheta # bot.theta
    /\ bot.believedX # 75 * PosScale


\* The cells of S joined to those of T by steps between 4-adjacent cells of S.
RECURSIVE Joined(_, _)
Joined(S, T) ==
    IF \A b \in S : (\E a \in T : Touching(a, b)) => b \in T
    THEN T
    ELSE Joined(S, T \cup { b \in S : \E a \in T : Touching(a, b) })

\* The maximal 4-connected components of a set of cells.
Components(S) == { Joined(S, {a}) : a \in S }

\* The FREE cells of the grid outside its outermost ring that have an UNKNOWN
\* 4-neighbour.
FrontierSet ==
    { a \in { FrontierCell(c, r) : c \in 1 .. (Cols - 2), r \in 1 .. (Rows - 2) } :
        /\ grid[a.col + a.row * Cols] = FREE
        /\ \E b \in { FrontierCell(c, r) : c \in 0 .. (Cols - 1), r \in 0 .. (Rows - 1) } :
              Touching(a, b) /\ grid[b.col + b.row * Cols] = UNKNOWN }

KeptClusters == { SeqRange(clusters[k]) : k \in DOMAIN clusters }

ClusterMeasure(k) ==
    Measure(Len(clusters[k]), SumCol(clusters[k], 1), SumRow(clusters[k], 1),
            robot.x \div CellSize, robot.y \div CellSize)

\* The target is the centre-of-cell point of the mean cell of the k-th cluster:
\* x = cellSize * (sum of cols / size) + cellSize / 2, and y likewise.
IsCentroidOf(k) ==
    /\ target.den > 0
    /\ target.xn * 2 * Len(clusters[k])
         = target.den * (2 * CellSize * SumCol(clusters[k], 1) + CellSize * Len(clusters[k]))
    /\ target.yn * 2 * Len(clusters[k])
         = target.den * (2 * CellSize * SumRow(clusters[k], 1) + CellSize * Len(clusters[k]))

C39_IdleIsStationary ==
    [][ /\ (op' = "applyInput" /\ keys' = {} /\ ~bot.hasPath) =>
              (bot'.forwardSpeed = 0 /\ bot'.turnSpeed = 0)
        /\ (op = "applyInput" /\ keys = {} /\ ~bot.hasPath /\ op' = "update") =>
              /\ bot'.x = bot.x /\ bot'.y = bot.y /\ bot'.theta = bot.theta
              /\ bot'.believedX = bot.believedX
              /\ bot'.believedY = bot.believedY
              /\ bot'.believedTheta = bot.believedTheta ]_vars

\* The step calls robot.setPath: a click that found a path, or a search of the
\* exploration loop that found one.
SetsPath == op' = "slamClick" \/ (op' \in SearchOps /\ lastSearch'.result = "path")

\* C35: path-index invariant.  With setPath called by the application (only
\* with non-empty paths), after every handler and every tick robot.path is null
\* or 0 <= pathIndex < path.length; setPath resets pathIndex to 0, a tick
\* raises it by at most 1, and while the same path stays active no step lowers
\* it and no handler changes it.
C35_PathIndexInRange ==
    [][ /\ bot'.hasPath => (0 <= bot'.pathIndex /\ bot'.pathIndex < Len(bot'.path))
        /\ SetsPath => (bot'.hasPath /\ bot'.pathIndex = 0)
        /\ (bot.hasPath /\ bot'.hasPath /\ ~SetsPath) =>
              /\ bot'.path = bot.path
              /\ bot'.pathIndex \in {bot.pathIndex, bot.pathIndex + 1}
              /\ op' \notin TickOps => bot'.pathIndex = bot.pathIndex ]_vars

\* The robot on its way to the second waypoint of a path, after a tick.
C35_Witness ==
    /\ op = "tick"
    /\ bot.hasPath
    /\ bot.pathIndex = 1
    /\ Len(bot.path) = 2

\* C31: frontier search runs only when exploring and idle.  A tick calls
\* findBestFrontier only if autoExploreActive is true when
\* handleFrontierExploration is entered and the robot, as robot.update left it
\* in that tick, has no active path (path is null or pathIndex >= path.length).
C31_SearchOnlyWhenIdle ==
    [][ op' \in SearchOps => (autoExploreActive /\ ~PathActive(AfterUpdate)) ]_vars

\* A search that came after the robot had run a two-waypoint path to its end:
\* exploration went on once the robot was idle again.
C31_Witness ==
    /\ op = "search"
    /\ autoExploreActive
    /\ bot.pathIndex = 2
    /\ lastSearch.age = 0

\* C33: in every reachable state of the application, autoExploreActive = false
\* implies frontierTarget = null, whatever ticks, key events, clicks, mode
\* switches and resets came before.
C33_NoStaleTarget == ~autoExploreActive => frontierTarget = NoTarget

\* A reset that came while the exploration loop held a target.
C33_Witness ==
    /\ op = "reset"
    /\ lastSearch.result \in {"path", "noPath"}
    /\ ~autoExploreActive
    /\ frontierTarget = NoTarget

\* C34: in every reachable state of the application, interactionMode = 'build'
\* implies autoExploreActive = false and robot.path = null.
C34_BuildModeIsManual == interactionMode = "build" => (~autoExploreActive /\ ~bot.hasPath)

\* The build mode button pressed while the exploration loop was running and
\* had set a path.
C34_Witness ==
    /\ interactionMode = "build"
    /\ op = "command"
    /\ cancelled
    /\ lastSearch.result = "path"
    /\ lastSearch.age < 2

\* The cell of the target point: Math.floor(target / cellSize)
TargetCol == target.xn \div (target.den * CellSize)
TargetRow == target.yn \div (target.den * CellSize)

\* C36: the target returned by findBestFrontier is always an acceptable
\* planning goal: it lies in a cell inside the grid whose belief state is not
\* OCCUPIED, so findPath does not reject it at its goal test.
C36_TargetIsPlannable ==
    (op = "findBestFrontierOn" /\ target # NoTarget) =>
        /\ TargetCol \in 0 .. (RoomCols - 1)
        /\ TargetRow \in 0 .. (RoomRows - 1)
        /\ grid[TargetCol + TargetRow * RoomCols] # OCCUPIED

\* ------------------------------------------------------------ the frame loop
\* animate() with every step computed: the canvas is as large as the mapper's
\* grid, its walls run along its edges (an imported map), the robot starts at
\* its centre as main.js builds it, and the noise slider is at 0.
CanvasWidth == Cols * CellSize
CanvasHeight == Rows * CellSize
CanvasWalls ==
    { Wall(0, 0, CanvasWidth, 0), Wall(CanvasWidth, 0, CanvasWidth, CanvasHeight),
      Wall(CanvasWidth, CanvasHeight, 0, CanvasHeight), Wall(0, CanvasHeight, 0, 0) }

\* Settings of the ray-density slider
FrameRays == {4, 8}

\* The walls and the robot as lidar.scan reads them, in whole world units
SensorWall(w) ==
    Segment(w.start.x \div PosScale, w.start.y \div PosScale,
            w.end.x \div PosScale, w.end.y \div PosScale)
SensorPose(b) == [x |-> b.x \div PosScale, y |-> b.y \div PosScale, theta |-> b.theta]

\* lidar.scan(robot, environment) of a tick
FrameScan(lid, b, ws) ==
    Scan(lid, SensorPose(b), { SensorWall(w) : w \in ws }, [i \in 1 .. lid.numRays |-> 0])

\* The scan as updateMap reads it: the cell of a point is that of its whole
\* part, and a distance is beyond the (whole) radius iff its ceiling is.
MapperHit(h) ==
    [x |-> h.x.n \div h.x.d, y |-> h.y.n \div h.y.d,
     distance |-> (h.distance.n + h.distance.d - 1) \div h.distance.d,
     angle |-> h.angle, hit |-> h.hit]
MapperHits(s) == [i \in DOMAIN s |-> MapperHit(s[i])]

\* frontierExplorer.findBestFrontier(robot.x, robot.y) on the grid g
FrameTarget(g, b) == FindBestFrontier(g, b.x \div PosScale, b.y \div PosScale)

\* The waypoints of a path of astar.findPath, in fixed point
Waypoints(p) == [i \in DOMAIN p |-> PathPoint(p[i].x, p[i].y)]

\* astar.findPath(robot.x, robot.y, x, y) on the grid g
FramePathTo(g, b, x, y) ==
    Waypoints(FindPath(g, b.x \div PosScale, b.y \div PosScale, x, y).path)

\* astar.findPath(robot.x, robot.y, target.x, target.y) on the grid g
FramePath(g, b, t) ==
    IF t = NoTarget THEN << >>
    ELSE FramePathTo(g, b, t.xn \div t.den, t.yn \div t.den)

\* The belief grid of a robot parked in the corner cell while dynamic
\* obstacles passed around it: its own cell FREE, the three cells around it
\* OCCUPIED, the three cells beyond them FREE, the rest UNKNOWN.  Switching the
\* obstacles off (setDynamicWalls([])) takes the walls away and keeps the map.
ObstacleTrace ==
    [i \in Indices |->
        IF i \in {1, Cols, Cols + 1} THEN OCCUPIED
        ELSE IF i \in {0, 2 + Cols, 1 + 2 * Cols, 2 + 2 * Cols} THEN FREE
        ELSE UNKNOWN]

\* Sessions in progress: a fresh one, the robot where main.js builds it and the
\* map cleared; and one on an imported map without walls, the robot parked in
\* the corner cell, after the dynamic obstacles were switched off.
FrameSessions ==
    { [walls |-> CanvasWalls, bot |-> NewRobot(CanvasWidth \div 2, CanvasHeight \div 2),
       grid |-> EmptyGrid],
      [walls |-> {}, bot |-> NewRobot(CellSize \div 2, CellSize \div 2),
       grid |-> ObstacleTrace] }

\* Points of a click on the SLAM canvas: in the cell left of the centre cell,
\* and in the cell beyond it, which lies along the left edge.
ClickPoints == { [x |-> CanvasWidth \div 2 - CellSize + 2, y |-> CanvasHeight \div 2 + 3],
                 [x |-> CanvasWidth \div 2 - 2 * CellSize + 2, y |-> CanvasHeight \div 2 + 3] }

\* A session in progress; frontierCooldown as an earlier exploration left it
\* (resetSimulation and the auto-explore button leave it alone); the
\* ray-density slider set, the noise slider at 0.
InitFrame ==
    /\ \E session \in FrameSessions :
          /\ bot = session.bot
          /\ walls = session.walls
          /\ grid = session.grid
    /\ hitWall = FALSE
    /\ keys = {}
    /\ pathWasSet = FALSE
    /\ interactionMode = "drive"
    /\ autoExploreActive = FALSE
    /\ frontierTarget = NoTarget
    /\ frontierCooldown \in {0, Cooldown - 1}
    /\ build = NotBuilding
    /\ customWalls = {}
    /\ lastSearch = [result |-> "never", age |-> Cooldown]
    /\ cancelled = FALSE
    /\ ExplorerAtRest
    /\ op = "app"
    /\ calls = 0
    /\ refused = FALSE
    /\ hadKnown = FALSE
    /\ PlannerAtRest
    /\ lidar \in { SetParameters(NewLidar, n, 0) : n \in FrameRays }
    /\ scan = << >>
    /\ sweepSoundCounter = 0

\* A frame loop that looks for a frontier and a path before the mapper has
\* written the scan of the tick into the grid.
FrameSearchFirst ==
    \E r \in { Update(ApplyInput(bot, keys), walls \cup customWalls, <<0, 0, 0>>) } :
    \E s \in { FrameScan(lidar, r.bot, walls \cup customWalls) } :
    \E m \in { UpdateMap(grid, MapperPose(r.bot), MapperHits(s)) } :
    \E t \in { FrameTarget(grid, r.bot) } :
    \E p \in { FramePath(grid, r.bot, t) } :
    \E e \in { HandleFrontierExploration(r.bot, autoExploreActive, frontierTarget,
                                         frontierCooldown, t, p) } :
        /\ bot' = e.bot
        /\ hitWall' = r.hitWall
        /\ scan' = s
        /\ sweepSoundCounter' = (sweepSoundCounter + 1) % SweepPeriod
        /\ grid' = m.grid
        /\ refused' = m.refused
        /\ hadKnown' = (KnownCells(grid) # {})
        /\ autoExploreActive' = e.autoExploreActive
        /\ frontierTarget' = e.frontierTarget
        /\ frontierCooldown' = e.frontierCooldown
        /\ lastSearch' = IF e.result # "idle" THEN [result |-> e.result, age |-> 0]
                         ELSE [lastSearch EXCEPT !.age = Min(@ + 1, Cooldown)]
        /\ cancelled' = FALSE
        /\ op' = IF e.result = "idle" THEN "tick"
                 ELSE IF lastSearch.result = "noPath" THEN "retry" ELSE "search"
        /\ UNCHANGED <<calls, plannerVars, explorerVars, lidar, walls, keys, pathWasSet,
                       interactionMode, build, customWalls>>

\* animate(): applyInput, update, scan, updateMap, handleFrontierExploration
Frame ==
    \E r \in { Update(ApplyInput(bot, keys), walls \cup customWalls, <<0, 0, 0>>) } :
    \E s \in { FrameScan(lidar, r.bot, walls \cup customWalls) } :
    \E m \in { UpdateMap(grid, MapperPose(r.bot), MapperHits(s)) } :
    \E t \in { FrameTarget(m.grid, r.bot) } :
    \E p \in { FramePath(m.grid, r.bot, t) } :
    \E e \in { HandleFrontierExploration(r.bot, autoExploreActive, frontierTarget,
                                         frontierCooldown, t, p) } :
        /\ bot' = e.bot
        /\ hitWall' = r.hitWall
        /\ scan' = s
        /\ sweepSoundCounter' = (sweepSoundCounter + 1) % SweepPeriod
        /\ grid' = m.grid
        /\ refused' = m.refused
        /\ hadKnown' = (KnownCells(grid) # {})
        /\ autoExploreActive' = e.autoExploreActive
        /\ frontierTarget' = e.frontierTarget
        /\ frontierCooldown' = e.frontierCooldown
        /\ lastSearch' = IF e.result # "idle" THEN [result |-> e.result, age |-> 0]
                         ELSE [lastSearch EXCEPT !.age = Min(@ + 1, Cooldown)]
        /\ cancelled' = FALSE
        /\ op' = IF e.result = "idle" THEN "tick"
                 ELSE IF lastSearch.result = "noPath" THEN "retry" ELSE "search"
        /\ UNCHANGED <<calls, plannerVars, explorerVars, lidar, walls, keys, pathWasSet,
                       interactionMode, build, customWalls>>

\* The slamCanvas mousedown handler
FrameMouseDown ==
    /\ calls < MaxClicks
    /\ calls' = calls + 1
    /\ interactionMode = "drive"
    /\ \E q \in ClickPoints : \E p \in { FramePathTo(grid, bot, q.x, q.y) } :
       \E r \in { SlamClick(bot, autoExploreActive, frontierTarget, p) } :
           /\ bot' = r.bot
           /\ autoExploreActive' = r.autoExploreActive
           /\ frontierTarget' = r.frontierTarget
           /\ op' = IF Len(p) > 0 THEN "slamClick" ELSE "slamClickFailed"
    /\ cancelled' = FALSE
    /\ UNCHANGED <<mapperVars, plannerVars, explorerVars, lidarVars, walls, hitWall, keys, pathWasSet,
                   interactionMode, frontierCooldown, build, customWalls, lastSearch>>

\* The auto-explore button of a session
FrameAutoExplore == calls < MaxClicks /\ ClickAutoExplore

\* The frame loop, the auto-explore button and click-to-navigate
NextFrame == Frame \/ FrameAutoExplore \/ FrameMouseDown

SpecFrame == InitFrame /\ [][NextFrame]_vars

\* A step of animate(), told by the counter that every frame and nothing else
\* changes: the steps of NextFrame that satisfy FrameRuns are its Frame steps,
\* and Frame, which has no guard, can take one in every state.
FrameRuns == sweepSoundCounter' = (sweepSoundCounter + 1) % SweepPeriod

\* The frame loop under the browser's scheduling: animate() asks for its next
\* call (requestAnimationFrame) before anything else, so frames keep coming.
SpecFrameLive == SpecFrame /\ WF_sweepSoundCounter(FrameRuns)

C38_PathIsCompleted ==
    \A n \in 0 .. MaxClicks :
        []((bot.hasPath /\ calls = n) => <>(calls # n \/ ~bot.hasPath))

\* C32: in every frame the grid is written once, by updateMap with the pose
\* that the frame's robot.update produced and the hits of the frame's scan
\* from that pose; a search of that frame reads the grid as written (the
\* target is findBestFrontier's on the new grid, the path findPath's on it);
\* a handler, which runs between two frames, leaves the grid as it finds it.
C32_SingleWriter ==
    [][ /\ op' \in TickOps =>
            \E b \in { AfterUpdate } :
                /\ grid' = UpdateMap(grid, MapperPose(b),
                                     MapperHits(FrameScan(lidar, b, walls \cup customWalls))).grid
                /\ scan' = FrameScan(lidar, b, walls \cup customWalls)
                /\ op' \in SearchOps =>
                      /\ frontierTarget' = FrameTarget(grid', b)
                      /\ (lastSearch'.result = "path") = (FramePath(grid', b, frontierTarget') # << >>)
                      /\ lastSearch'.result = "path" =>
                            bot'.path = FramePath(grid', b, frontierTarget')
        /\ op' \notin TickOps => grid' = grid ]_vars
C32_Witness ==
    /\ op = "search" /\ ~hadKnown /\ KnownCells(grid) # {}
    /\ lastSearch.result = "path" /\ bot.hasPath

====
